---------------------------- MODULE Spec2Model ----------------------------
(***************************************************************************)
(* Road-network analyzer: the geometry kernel (segment intersection,       *)
(* point in polygon), the intersection graph builder in its vector and     *)
(* raster variants, and the multi-endpoint Overpass fetch loop.            *)
(*                                                                         *)
(* Numbers.  The code computes on IEEE doubles; the model computes on      *)
(* exact rationals <<n, d>> (d > 0, lowest terms).  One model unit of      *)
(* length is 0.00001 degree, the code's `tolerance`, so that               *)
(*   - a length compared with tolerance is compared with 1,                *)
(*   - a product of two lengths (cross product, dot product, denom) is in  *)
(*     units of 1e-10 square degree: compared with 1e-10 it is compared    *)
(*     with 1, compared with tolerance (1e-5) it is compared with Scale,   *)
(*   - toFixed(6) rounds to 1e-6 degree, a tenth of a unit.                *)
(***************************************************************************)
EXTENDS Integers, Sequences, FiniteSets, TLC

\* ---------------------------------------------------------------- bounds
\* Segment-kernel inputs: coordinates k/2 for k in 0..SegMax.
SegMax == 3
\* Point in polygon: ring vertices on the integer grid 0..PipMax squared, rings
\* of 3..RingMax vertices, test points on the half-unit grid around it.
PipMax == 2
RingMax == 4
\* Intersection builder: road vertices on the grid 0..DetMaxX by 0..DetMaxY
\* of spacing DetStep units, roads of 2..MaxVerts vertices, two-road networks
\* of at most MaxNetVerts vertices, at most MaxRuns calls.
DetMaxX == 2
DetMaxY == 1
MaxVerts == 3
MaxRuns == 2
MaxNetVerts == 5
DetStep == 10
\* Latitude (in units) of the far end of the roads that cross longitude 0.
FarLat == 29
\* Clipper: regions of 1..MaxRegion features, 0..MaxClipped features to clip.
MaxRegion == 2
MaxClipped == 2
\* Bounding box: regions of 0..MaxBoxRegion features.
MaxBoxRegion == 3
\* Pipeline: the number of ways fetched.
PipeWays == 2
\* Normalisation: responses of 0..MaxBatch elements.
MaxBatch == 2

\* Binarization: images of 1..MaxPixels pixels, sensitivities k/SensSteps.
MaxPixels == 2
SensSteps == 10

\* Vectorization: 1..MaxComponents components.
MaxComponents == 2

\* Flood fill: images of FillWidth x FillHeight pixels.
FillWidth == 5
FillHeight == 3

\* Analysis: at most MaxAnalyses calls of handleAnalyze get past validation.
MaxAnalyses == 2

\* Map editor: networks of 2..MaxEdited features.
MaxEdited == 3

\* ------------------------------------------------------------- constants
\* Model units per degree: 1 unit = 0.00001 degree.
Scale == 100000
\* toFixed(6): 1e-6 degree is 1/KeyPerUnit of a unit.
KeyPerUnit == 10

Null == "null"
\* The value of a foreground pixel.
White == 255
\* Width and height of the image, in pixels.
ImageSize == 1024
\* Metres per degree in calculateRoadLength.
MetresPerDegree == 111000
\* component.length > 5
MinKept == 5

\* ------------------------------------------------------------ arithmetic
Abs(n) == IF n < 0 THEN -n ELSE n

RECURSIVE GCD(_, _)
GCD(a, b) == IF b = 0 THEN a ELSE GCD(b, a % b)

\* The rational n/d (d > 0) in lowest terms.
Norm(n, d) == LET g == GCD(Abs(n), d) IN <<n \div g, d \div g>>

R(k) == <<k, 1>>

\* Sums go through the least common denominator.
AddOver(a, b, g) ==
    Norm(a[1] * (b[2] \div g) + b[1] * (a[2] \div g), (a[2] \div g) * b[2])
RAdd(a, b) == AddOver(a, b, GCD(a[2], b[2]))
RNeg(a) == <<-a[1], a[2]>>
RSub(a, b) == RAdd(a, RNeg(b))
RMul(a, b) ==
    LET g1 == GCD(Abs(a[1]), b[2])
        g2 == GCD(Abs(b[1]), a[2])
    IN  Norm((a[1] \div g1) * (b[1] \div g2), (a[2] \div g2) * (b[2] \div g1))
\* a / b for b # 0.
RDiv(a, b) ==
    IF b[1] > 0 THEN RMul(a, <<b[2], b[1]>>) ELSE RMul(a, <<-b[2], -b[1]>>)
\* Comparisons look at the integer parts first, then at the fractions.
RLt(a, b) ==
    \/ a[1] \div a[2] < b[1] \div b[2]
    \/ /\ a[1] \div a[2] = b[1] \div b[2]
       /\ (a[1] % a[2]) * b[2] < (b[1] % b[2]) * a[2]
RLe(a, b) ==
    \/ a[1] \div a[2] < b[1] \div b[2]
    \/ /\ a[1] \div a[2] = b[1] \div b[2]
       /\ (a[1] % a[2]) * b[2] <= (b[1] % b[2]) * a[2]
RAbs(a) == <<Abs(a[1]), a[2]>>

\* 1e-10 (square degrees), the parallel test's epsilon.
ParallelEps == R(1)
\* tolerance = 0.00001 compared with a length.
TolLen == R(1)
\* tolerance = 0.00001 compared with a product of two lengths.
TolArea == R(Scale)

\* -------------------------------------------------- segment intersection
denomOf(p1, p2, p3, p4) ==
    RSub(RMul(RSub(p1[1], p2[1]), RSub(p3[2], p4[2])),
         RMul(RSub(p1[2], p2[2]), RSub(p3[1], p4[1])))

\* t and u of lineSegmentIntersection, denom computed.
tOf(p1, p2, p3, p4, denom) ==
    RDiv(RSub(RMul(RSub(p1[1], p3[1]), RSub(p3[2], p4[2])),
              RMul(RSub(p1[2], p3[2]), RSub(p3[1], p4[1]))),
         denom)

\* u without the leading minus sign of line 322.
uOfFlipped(p1, p2, p3, p4, denom) ==
    RDiv(RSub(RMul(RSub(p1[1], p2[1]), RSub(p1[2], p3[2])),
              RMul(RSub(p1[2], p2[2]), RSub(p1[1], p3[1]))),
         denom)

uOf(p1, p2, p3, p4, denom) ==
    RNeg(RDiv(RSub(RMul(RSub(p1[1], p2[1]), RSub(p1[2], p3[2])),
                   RMul(RSub(p1[2], p2[2]), RSub(p1[1], p3[1]))),
              denom))

InUnit(q) == RLe(R(0), q) /\ RLe(q, R(1))

\* The last lines of lineSegmentIntersection, t and u computed.
pointWhenInside(p1, p2, t, u) ==
    IF InUnit(t) /\ InUnit(u)
    THEN <<RAdd(p1[1], RMul(t, RSub(p2[1], p1[1]))),
           RAdd(p1[2], RMul(t, RSub(p2[2], p1[2])))>>
    ELSE Null

\* lineSegmentIntersection from the parallel test on, denom computed.
intersectionFor(p1, p2, p3, p4, denom) ==
    IF RLt(RAbs(denom), ParallelEps)
    THEN Null
    ELSE pointWhenInside(p1, p2, tOf(p1, p2, p3, p4, denom), uOf(p1, p2, p3, p4, denom))

lineSegmentIntersection(p1, p2, p3, p4) ==
    intersectionFor(p1, p2, p3, p4, denomOf(p1, p2, p3, p4))

\* ----------------------------------------------- intersection graph builder
\* A feature is a record [type, id, coords, isIntersection, connectedRoads]:
\* coords is the coordinate sequence of a LineString and the position of a
\* Point.  NoId is the value of feature.id when the feature has no id member.
NoId == "undefined"

LineFeature(id, coords) ==
    [type |-> "LineString", id |-> id, coords |-> coords,
     isIntersection |-> FALSE, connectedRoads |-> <<>>]

\* The Point feature detectIntersections creates for a new key.
PointFeature(point, id1, id2) ==
    [type |-> "Point", id |-> NoId, coords |-> point,
     isIntersection |-> TRUE, connectedRoads |-> <<id1, id2>>]

Includes(seq, v) == \E k \in 1..Len(seq) : seq[k] = v

\* x.toFixed(6): the sign the string starts with and its digits, as the count
\* of 1e-6 degrees nearest to |x|, the larger one on a tie.
RoundHalfUp(m) == (2 * m[1] + m[2]) \div (2 * m[2])

toFixed6(x) ==
    <<IF x[1] < 0 THEN "-" ELSE "", RoundHalfUp(RMul(RAbs(x), R(KeyPerUnit)))>>

\* `${point[0].toFixed(6)},${point[1].toFixed(6)}`
KeyOf(point) == <<toFixed6(point[1]), toFixed6(point[2])>>

\* if (intersection) intersections.push(intersection)
Pushed(intersection) == IF intersection = Null THEN <<>> ELSE <<intersection>>

RECURSIVE findFrom(_, _, _, _)
\* The nested loops of findLineIntersections from sub-segment pair (i, j) on.
findFrom(line1, line2, i, j) ==
    IF i > Len(line1) - 1 THEN <<>>
    ELSE IF j > Len(line2) - 1 THEN findFrom(line1, line2, i + 1, 1)
    ELSE Pushed(lineSegmentIntersection(line1[i], line1[i + 1], line2[j], line2[j + 1]))
             \o findFrom(line1, line2, i, j + 1)

findLineIntersections(line1, line2) == findFrom(line1, line2, 1, 1)

isPointOnSegment(point, segStart, segEnd) ==
    LET px == point[1]
        py == point[2]
        x1 == segStart[1]
        y1 == segStart[2]
        x2 == segEnd[1]
        y2 == segEnd[2]
        crossProduct == RAbs(RSub(RMul(RSub(py, y1), RSub(x2, x1)),
                                  RMul(RSub(px, x1), RSub(y2, y1))))
        dotProduct == RAdd(RMul(RSub(px, x1), RSub(x2, x1)),
                           RMul(RSub(py, y1), RSub(y2, y1)))
        squaredLength == RAdd(RMul(RSub(x2, x1), RSub(x2, x1)),
                              RMul(RSub(y2, y1), RSub(y2, y1)))
    IN  IF RLt(TolArea, crossProduct) THEN FALSE
        ELSE IF RLt(dotProduct, RNeg(TolArea))
                \/ RLt(RAdd(squaredLength, TolArea), dotProduct) THEN FALSE
        ELSE TRUE

\* coords.some(coord => both coordinate differences are below tolerance)
alreadyExists(coords, intersection) ==
    \E k \in 1..Len(coords) :
        /\ RLt(RAbs(RSub(coords[k][1], intersection[1])), TolLen)
        /\ RLt(RAbs(RSub(coords[k][2], intersection[2])), TolLen)

\* A splice that overwrites the vertex at i + 1 instead of inserting.
SpliceOver(coords, i, intersection) ==
    SubSeq(coords, 1, i) \o <<intersection>> \o SubSeq(coords, i + 2, Len(coords))

\* coords.splice(i + 1, 0, intersection), i counted from 1 here.
Splice(coords, i, intersection) ==
    SubSeq(coords, 1, i) \o <<intersection>> \o SubSeq(coords, i + 1, Len(coords))

RECURSIVE updateFrom(_, _, _)
\* The loop of updateRoadWithIntersection from segment i on.
updateFrom(coords, intersection, i) ==
    IF i > Len(coords) - 1 THEN coords
    ELSE IF isPointOnSegment(intersection, coords[i], coords[i + 1])
    THEN IF alreadyExists(coords, intersection) THEN coords
         ELSE Splice(coords, i, intersection)
    ELSE updateFrom(coords, intersection, i + 1)

\* The coordinate array of the road after updateRoadWithIntersection.
updateRoadWithIntersection(coords, intersection) == updateFrom(coords, intersection, 1)

\* connectedRoads after the two includes/push steps of the else branch.
AddRoadIds(list, id1, id2) ==
    LET l1 == IF Includes(list, id1) THEN list ELSE Append(list, id1)
    IN  IF Includes(l1, id2) THEN l1 ELSE Append(l1, id2)

\* The state of one detectIntersections call: the features array (whose road
\* objects are mutated in place) and the intersectionPoints Map, in insertion
\* order, as its keys and its values.
IndexOf(seq, v) == CHOOSE n \in 1..Len(seq) : seq[n] = v

\* The body of the forEach callback for one intersection of roads i and j:
\* the Map entry for its key is created or extended, then both roads updated.
recordHit(st, i, j, point, key, id1, id2) ==
    [features |->
        [st.features EXCEPT
           ![i].coords = updateRoadWithIntersection(@, point),
           ![j].coords = updateRoadWithIntersection(@, point)],
     keys |-> IF Includes(st.keys, key) THEN st.keys ELSE Append(st.keys, key),
     points |->
        IF Includes(st.keys, key)
        THEN [st.points EXCEPT
                ![IndexOf(st.keys, key)].connectedRoads = AddRoadIds(@, id1, id2)]
        ELSE Append(st.points, PointFeature(point, id1, id2))]

RECURSIVE hitsFrom(_, _, _, _, _)
\* intersections.forEach for the road pair (i, j), from hit k on.
hitsFrom(st, i, j, hits, k) ==
    IF k > Len(hits) THEN st
    ELSE hitsFrom(recordHit(st, i, j, hits[k], KeyOf(hits[k]),
                            st.features[i].id, st.features[j].id),
                  i, j, hits, k + 1)

RECURSIVE pairsFrom(_, _, _)
\* The two for loops of detectIntersections from the pair (i, j) on.
pairsFrom(st, i, j) ==
    IF i > Len(st.features) THEN st
    ELSE IF j > Len(st.features) THEN pairsFrom(st, i + 1, i + 2)
    ELSE IF st.features[i].type # "LineString" \/ st.features[j].type # "LineString"
    THEN pairsFrom(st, i, j + 1)
    ELSE pairsFrom(hitsFrom(st, i, j,
                            findLineIntersections(st.features[i].coords,
                                                  st.features[j].coords), 1),
                   i, j + 1)

\* detectIntersections (vector): the returned features array.
\* [...features, ...Array.from(intersectionPoints.values())]
allFeatures(st) == st.features \o st.points

detectIntersections(features) ==
    allFeatures(pairsFrom([features |-> features, keys |-> <<>>, points |-> <<>>], 1, 2))

\* ---------------------------------------------- raster intersection pass
\* if (intersection) return it, else go on with the loops.
OrElse(intersection, rest) == IF intersection # Null THEN intersection ELSE rest

RECURSIVE firstHitFrom(_, _, _, _)
\* findLineIntersection: the first hit in the nested loops, or Null.
firstHitFrom(line1, line2, i, j) ==
    IF i > Len(line1) - 1 THEN Null
    ELSE IF j > Len(line2) - 1 THEN firstHitFrom(line1, line2, i + 1, 1)
    ELSE OrElse(lineSegmentIntersection(line1[i], line1[i + 1], line2[j], line2[j + 1]),
                firstHitFrom(line1, line2, i, j + 1))

findLineIntersection(line1, line2) == firstHitFrom(line1, line2, 1, 1)

MapIndex(map, key) == CHOOSE n \in 1..Len(map) : map[n].key = key

\* intersectionMap after has/get/set for the key of one intersection.
rasterPut(map, key, intersection, id1, id2) ==
    IF \E n \in 1..Len(map) : map[n].key = key
    THEN [map EXCEPT ![MapIndex(map, key)].roads = @ \o <<id1, id2>>]
    ELSE Append(map, [key |-> key, point |-> intersection, roads |-> <<id1, id2>>])

\* if (intersection) { ... } for the road pair with ids id1, id2.
rasterRecord(map, intersection, id1, id2) ==
    IF intersection = Null THEN map
    ELSE rasterPut(map, KeyOf(intersection), intersection, id1, id2)

RECURSIVE rasterPairsFrom(_, _, _, _)
\* The two for loops of the raster detectIntersections: intersectionMap, in
\* insertion order, as a sequence of [key, point, roads].
rasterPairsFrom(roads, map, i, j) ==
    IF i > Len(roads) THEN map
    ELSE IF j > Len(roads) THEN rasterPairsFrom(roads, map, i + 1, i + 2)
    ELSE rasterPairsFrom(roads,
                         rasterRecord(map,
                                      findLineIntersection(roads[i].coords,
                                                           roads[j].coords),
                                      roads[i].id, roads[j].id),
                         i, j + 1)

rasterIntersectionMap(roads) == rasterPairsFrom(roads, <<>>, 1, 2)

\* The Point features the raster detectIntersections returns for its map:
\* properties {index} only.
rasterFeatures(map) ==
    [n \in 1..Len(map) |->
        [type |-> "Point", id |-> NoId, coords |-> map[n].point,
         isIntersection |-> FALSE, connectedRoads |-> <<>>]]

\* ------------------------------------------------------ point in polygon
RECURSIVE pipLoop(_, _, _, _, _)
\* The for loop of isPointInPolygon from index i on, j the previous index.
pipLoop(point, polygon, i, j, inside) ==
    IF i > Len(polygon) THEN inside
    ELSE LET x == point[1]
             y == point[2]
             xi == polygon[i][1]
             yi == polygon[i][2]
             xj == polygon[j][1]
             yj == polygon[j][2]
             hit == /\ RLt(y, yi) # RLt(y, yj)
                    /\ RLt(x, RAdd(RDiv(RMul(RSub(xj, xi), RSub(y, yi)),
                                        RSub(yj, yi)), xi))
         IN  pipLoop(point, polygon, i + 1, i, IF hit THEN ~inside ELSE inside)

\* The loop without the edge from the last vertex back to the first.
isPointInPolygonNoWrap(point, polygon) ==
    IF Len(polygon) < 2 THEN FALSE ELSE pipLoop(point, polygon, 2, 1, FALSE)

isPointInPolygon(point, polygon) ==
    IF Len(polygon) = 0 THEN FALSE
    ELSE pipLoop(point, polygon, 1, Len(polygon), FALSE)

\* ------------------------------------------------------------- variables
VARIABLES
    scenario,   \* which part of the program this behaviour exercises
    sp,         \* segment kernel: the four end points <<p1, p2, p3, p4>>
    sres,       \* segment kernel: the returned value, or "pending"
    spc,        \* segment kernel: "call" before the call, "done" after
    ring,       \* point in polygon: the ring passed as `polygon`
    pt,         \* point in polygon: the point tested
    pres,       \* point in polygon: result for the ring as given, or "pending"
    pres2,      \* point in polygon: result for the ring with its first vertex
                \* repeated at the end, or "pending"
    ppc,        \* point in polygon: "open", then "closed", then "done"
    fvariant,   \* fetch: "multi" (endpoint list) or "single" (one endpoint)
    fpc,        \* fetch: "attempt", "backoff", "afterLoop", "returned", "threw"
    serverIndex,\* fetch: index (1-based) of the endpoint of the current attempt
    lastError,  \* fetch: the error caught last, or Null
    data,       \* fetch: the parsed response body, or Null before any
    attempts,   \* fetch (history): <<endpoint, outcome>> of every attempt made
    thrown,     \* fetch: the error the call rejected with, or Null
    dvariant,   \* builder: "vector" or "raster"
    droads0,    \* builder (history): the road features as first supplied
    droads,     \* builder: the caller's road features (mutated in place)
    dout,       \* builder: the features the last call returned
    dprev,      \* builder (history): what the call before it had returned
    dmap,       \* builder: the raster call's intersectionMap entries
    dfed,       \* builder: what the last call was given: "roads" or "output"
    druns,      \* builder: the number of calls made
    cvariant,   \* clipper: "vector" or "raster"
    cregion,    \* clipper: the region's features
    cfeatures,  \* clipper: the features to clip
    cout,       \* clipper: the returned features, "TypeError", or "pending"
    cpc,        \* clipper: "call" before the call, "done" after
    bvariant,   \* bounding box: "vector" or "raster" analyzer
    bregion,    \* bounding box: the region's features
    bbox,       \* bounding box: the box computed, or Null
    bpc,        \* bounding box: "start", then "threw" or "fetching"
    evariant,   \* pipeline: "vector" or "raster" path
    eclip,      \* pipeline: clipToBoundary
    eregion,    \* pipeline: the region's features
    eways,      \* pipeline: the road features before clipping and detection
    eraw,       \* pipeline: what analyzeRoadNetwork returned (vector path)
    efinal,     \* pipeline: the features of the final result, or "pending"
    eroadSet,   \* pipeline: the page's road features after the split
    epointSet,  \* pipeline: the page's intersection features after the split
    epc,        \* pipeline: "start", "analyzed", "done", "shown"
    nvariant,   \* normalisation: "single" or "multi" endpoint analyzer
    nelements,  \* normalisation: data.elements
    nout,       \* normalisation: the features, "TypeError", or "pending"
    npc         \* normalisation: "call" before, "done" after

\* ---- state of the raster steps, the page and the map editor
VARIABLES
    image, \* binarization: data[i] of each pixel, the red channel after edge detection
    sensitivity, \* binarization: options.sensitivity of the two runs, in tenths
    binaryData, \* binarization: the binaryData of each run made so far
    vbox, \* vectorization: the boundingBox of the image
    vcomponents, \* vectorization: the pixel components found in the skeleton
    vminWidth, \* vectorization: options.minRoadWidth
    vroads, \* vectorization: the road features returned
    vtypes, \* vectorization (history): the local roadType computed for each road
    vpc, \* vectorization: "call" before the call, "done" after
    ccbinary, \* flood fill: binaryData, row by row
    ccx, \* flood fill: x of the scan
    ccy, \* flood fill: y of the scan
    ccvisited, \* flood fill: the visited set of pixel indices
    ccstack, \* flood fill: the stack of floodFill
    cccomponent, \* flood fill: the component floodFill is collecting
    cccomponents, \* flood fill: the components kept
    ccfound, \* flood fill (history): every component floodFill returned
    ccpc, \* flood fill: idle | scan | fill | done
    currentSelectedFeatureId, \* page: the module-level identifier of the selection
    highlightedFeature, \* page: the highlightedFeature state
    selHandler, \* page (history): the handler that ran last
    selFeature, \* page (history): the feature it was given
    selBefore, \* page (history): highlightedFeature before it ran
    avariant, \* analysis: page | older (the earlier page) | none
    inputGeoJson, \* analysis: null | empty (no features) | region
    isAnalyzing, \* analysis: the isAnalyzing state
    roadNetwork, \* analysis: the stored roadNetwork
    intersections, \* analysis: the intersections state
    amethod, \* analysis: the method of the running call
    apc, \* analysis: idle | awaiting | finally
    atoast, \* analysis: the title of the last toast
    abefore, \* analysis (history): roadNetwork and intersections when the call began
    aoutcome, \* analysis (history): none | pending | resolved | threw
    acalls, \* analysis (history): the number of calls that began
    editableNetwork, \* map editor: the features of editableNetwork
    edBefore, \* map editor (history): the features before the edit
    edOp, \* map editor (history): none | delete | drag | move | deleteVertex
    edIndex  \* map editor (history): the place of the edited feature

binVars == <<image, sensitivity, binaryData>>
typeVars == <<vbox, vcomponents, vminWidth, vroads, vtypes, vpc>>
fillVars == <<ccbinary, ccx, ccy, ccvisited, ccstack, cccomponent, cccomponents, ccfound, ccpc>>
selVars == <<currentSelectedFeatureId, highlightedFeature, selHandler, selFeature, selBefore>>
analyzeVars == <<avariant, inputGeoJson, isAnalyzing, roadNetwork, intersections, amethod, apc, atoast, abefore, aoutcome, acalls>>
editVars == <<editableNetwork, edBefore, edOp, edIndex>>
lateVars == <<binVars, typeVars, fillVars, selVars, analyzeVars, editVars>>

BinIdle ==
    /\ image = <<>>
    /\ sensitivity = <<>>
    /\ binaryData = <<>>

TypeIdle ==
    /\ vbox = <<>>
    /\ vcomponents = <<>>
    /\ vminWidth = 0
    /\ vroads = <<>>
    /\ vtypes = <<>>
    /\ vpc = "idle"

FillIdle ==
    /\ ccbinary = <<>>
    /\ ccx = 0
    /\ ccy = 0
    /\ ccvisited = {}
    /\ ccstack = <<>>
    /\ cccomponent = <<>>
    /\ cccomponents = <<>>
    /\ ccfound = <<>>
    /\ ccpc = "idle"

SelIdle ==
    /\ currentSelectedFeatureId = <<>>
    /\ highlightedFeature = <<>>
    /\ selHandler = "none"
    /\ selFeature = <<>>
    /\ selBefore = <<>>

AnalyzeIdle ==
    /\ avariant = "none"
    /\ inputGeoJson = "null"
    /\ isAnalyzing = FALSE
    /\ roadNetwork = "null"
    /\ intersections = "null"
    /\ amethod = "none"
    /\ apc = "idle"
    /\ atoast = "none"
    /\ abefore = <<>>
    /\ aoutcome = "none"
    /\ acalls = 0

EditIdle ==
    /\ editableNetwork = <<>>
    /\ edBefore = <<>>
    /\ edOp = "none"
    /\ edIndex = 0

LateIdle == BinIdle /\ TypeIdle /\ FillIdle /\ SelIdle /\ AnalyzeIdle /\ EditIdle

\* ---- end of the variable declarations

segVars == <<sp, sres, spc>>
pipVars == <<ring, pt, pres, pres2, ppc>>
fetchVars == <<fvariant, fpc, serverIndex, lastError, data, attempts, thrown>>
detVars == <<dvariant, droads0, droads, dout, dprev, dmap, dfed, druns>>
clipVars == <<cvariant, cregion, cfeatures, cout, cpc>>
boxVars == <<bvariant, bregion, bbox, bpc>>
pipeVars == <<evariant, eclip, eregion, eways, eraw, efinal, eroadSet, epointSet, epc>>
normVars == <<nvariant, nelements, nout, npc>>
kernelVars == <<segVars, pipVars, fetchVars, detVars>>
midVars == <<clipVars, boxVars, pipeVars, normVars>>
restVars == <<midVars, lateVars>>
vars == <<scenario, segVars, pipVars, fetchVars, detVars, restVars>>

SegIdle == sp = <<>> /\ sres = "pending" /\ spc = "idle"
PipIdle ==
    ring = <<>> /\ pt = <<>> /\ pres = "pending" /\ pres2 = "pending" /\ ppc = "idle"

FetchIdle ==
    /\ fvariant = "none" /\ fpc = "idle" /\ serverIndex = 0 /\ lastError = Null
    /\ data = Null /\ attempts = <<>> /\ thrown = Null

DetIdle ==
    /\ dvariant = "none" /\ droads0 = <<>> /\ droads = <<>> /\ dout = <<>>
    /\ dprev = <<>> /\ dmap = <<>> /\ dfed = "none" /\ druns = 0

ClipIdle ==
    /\ cvariant = "none" /\ cregion = <<>> /\ cfeatures = <<>>
    /\ cout = <<>> /\ cpc = "idle"

BoxIdle == bvariant = "none" /\ bregion = <<>> /\ bbox = Null /\ bpc = "idle"

PipeIdle ==
    /\ evariant = "none" /\ eclip = FALSE /\ eregion = <<>> /\ eways = <<>>
    /\ eraw = "pending" /\ efinal = "pending" /\ eroadSet = <<>>
    /\ epointSet = <<>> /\ epc = "idle"

NormIdle ==
    nvariant = "none" /\ nelements = <<>> /\ nout = <<>> /\ npc = "idle"

MidIdle == ClipIdle /\ BoxIdle /\ PipeIdle /\ NormIdle
RestIdle == MidIdle /\ LateIdle

KernelIdle == SegIdle /\ PipIdle /\ FetchIdle /\ DetIdle

\* ---- what each of these parts leaves alone
exceptBinVars == <<scenario, kernelVars, midVars, typeVars, fillVars, selVars, analyzeVars, editVars>>
OnlyBin == KernelIdle /\ MidIdle /\ TypeIdle /\ FillIdle /\ SelIdle /\ AnalyzeIdle /\ EditIdle
exceptTypeVars == <<scenario, kernelVars, midVars, binVars, fillVars, selVars, analyzeVars, editVars>>
OnlyType == KernelIdle /\ MidIdle /\ BinIdle /\ FillIdle /\ SelIdle /\ AnalyzeIdle /\ EditIdle
exceptFillVars == <<scenario, kernelVars, midVars, binVars, typeVars, selVars, analyzeVars, editVars>>
OnlyFill == KernelIdle /\ MidIdle /\ BinIdle /\ TypeIdle /\ SelIdle /\ AnalyzeIdle /\ EditIdle
exceptSelVars == <<scenario, kernelVars, midVars, binVars, typeVars, fillVars, analyzeVars, editVars>>
OnlySel == KernelIdle /\ MidIdle /\ BinIdle /\ TypeIdle /\ FillIdle /\ AnalyzeIdle /\ EditIdle
exceptAnalyzeVars == <<scenario, kernelVars, midVars, binVars, typeVars, fillVars, selVars, editVars>>
OnlyAnalyze == KernelIdle /\ MidIdle /\ BinIdle /\ TypeIdle /\ FillIdle /\ SelIdle /\ EditIdle
exceptEditVars == <<scenario, kernelVars, midVars, binVars, typeVars, fillVars, selVars, analyzeVars>>
OnlyEdit == KernelIdle /\ MidIdle /\ BinIdle /\ TypeIdle /\ FillIdle /\ SelIdle /\ AnalyzeIdle

\* ---- end of the frames

\* ---------------------------------------------------------- segment spec
SegCoords == {Norm(k, 2) : k \in 0..SegMax}
SegPoints == SegCoords \X SegCoords

InitSeg ==
    /\ scenario = "segment"
    /\ RestIdle
    /\ sp \in SegPoints \X SegPoints \X SegPoints \X SegPoints
    /\ sres = "pending"
    /\ spc = "call"
    /\ PipIdle
    /\ FetchIdle
    /\ DetIdle

CallSegmentIntersection ==
    /\ scenario = "segment"
    /\ spc = "call"
    /\ sres' = lineSegmentIntersection(sp[1], sp[2], sp[3], sp[4])
    /\ spc' = "done"
    /\ UNCHANGED <<scenario, restVars, sp, pipVars, fetchVars, detVars>>

NextSeg == CallSegmentIntersection

SpecSeg == InitSeg /\ [][NextSeg]_vars

\* ------------------------------------------------- geometric reference
\* Twice the signed area of the triangle a, b, c.
Orient(a, b, c) ==
    RSub(RMul(RSub(b[1], a[1]), RSub(c[2], a[2])),
         RMul(RSub(b[2], a[2]), RSub(c[1], a[1])))

Sgn(q) == IF q[1] > 0 THEN 1 ELSE IF q[1] < 0 THEN -1 ELSE 0

RMin(a, b) == IF RLe(a, b) THEN a ELSE b
RMax(a, b) == IF RLe(a, b) THEN b ELSE a

\* q lies on the closed segment a b.
OnClosedSeg(q, a, b) ==
    /\ Orient(a, b, q) = R(0)
    /\ RLe(RMin(a[1], b[1]), q[1]) /\ RLe(q[1], RMax(a[1], b[1]))
    /\ RLe(RMin(a[2], b[2]), q[2]) /\ RLe(q[2], RMax(a[2], b[2]))

\* The closed segments a b and c d have a common point.
SegsTouch(a, b, c, d) ==
    \/ /\ Sgn(Orient(a, b, c)) * Sgn(Orient(a, b, d)) < 0
       /\ Sgn(Orient(c, d, a)) * Sgn(Orient(c, d, b)) < 0
    \/ OnClosedSeg(c, a, b) \/ OnClosedSeg(d, a, b)
    \/ OnClosedSeg(a, c, d) \/ OnClosedSeg(b, c, d)

\* The directions of a b and c d are parallel (exactly).
Parallel(a, b, c, d) ==
    RMul(RSub(b[1], a[1]), RSub(d[2], c[2])) = RMul(RSub(b[2], a[2]), RSub(d[1], c[1]))

Succ(i, n) == IF i = n THEN 1 ELSE i + 1

\* r (first vertex not repeated) is a simple ring: distinct vertices, edges
\* that meet only at the vertex two consecutive edges share.
SimpleRing(r) ==
    LET n == Len(r) IN
    /\ n >= 3
    /\ \A i, j \in 1..n : i # j => r[i] # r[j]
    /\ \A i \in 1..n :
          /\ ~OnClosedSeg(r[Succ(Succ(i, n), n)], r[i], r[Succ(i, n)])
          /\ ~OnClosedSeg(r[i], r[Succ(i, n)], r[Succ(Succ(i, n), n)])
    /\ \A i, j \in 1..n :
          (i # j /\ Succ(i, n) # j /\ Succ(j, n) # i)
              => ~SegsTouch(r[i], r[Succ(i, n)], r[j], r[Succ(j, n)])

OnBoundary(q, r) ==
    \E i \in 1..Len(r) : OnClosedSeg(q, r[i], r[Succ(i, Len(r))])

RECURSIVE WindingFrom(_, _, _)
\* The winding number of ring r around q, counted on the edges i..Len(r) by
\* their signed crossings of the vertical ray that goes up from q.
WindingFrom(q, r, i) ==
    IF i > Len(r) THEN 0
    ELSE LET a == r[i]
             b == r[Succ(i, Len(r))]
             w == IF RLe(a[1], q[1]) /\ RLt(q[1], b[1]) /\ Sgn(Orient(a, b, q)) < 0
                  THEN 1
                  ELSE IF RLe(b[1], q[1]) /\ RLt(q[1], a[1]) /\ Sgn(Orient(a, b, q)) > 0
                  THEN -1
                  ELSE 0
         IN  w + WindingFrom(q, r, i + 1)

StrictlyInside(q, r) == ~OnBoundary(q, r) /\ WindingFrom(q, r, 1) # 0
StrictlyOutside(q, r) == ~OnBoundary(q, r) /\ WindingFrom(q, r, 1) = 0

\* ------------------------------------------------ point in polygon spec
PipGrid == {<<R(x), R(y)>> : x \in 0..PipMax, y \in 0..PipMax}
PipTestCoords == {Norm(k, 2) : k \in 0..(2 * PipMax + 2)}
PipRings ==
    {r \in UNION {[1..n -> PipGrid] : n \in 3..RingMax} : SimpleRing(r)}

InitPip ==
    /\ scenario = "pip"
    /\ RestIdle
    /\ ring \in PipRings
    /\ pt \in PipTestCoords \X PipTestCoords
    /\ pres = "pending"
    /\ pres2 = "pending"
    /\ ppc = "open"
    /\ SegIdle
    /\ FetchIdle
    /\ DetIdle

\* isPointInPolygon(pt, ring), the ring not repeating its first vertex.
CallPipOpen ==
    /\ scenario = "pip"
    /\ ppc = "open"
    /\ pres' = isPointInPolygon(pt, ring)
    /\ ppc' = "closed"
    /\ UNCHANGED <<scenario, restVars, ring, pt, pres2, segVars, fetchVars, detVars>>

\* isPointInPolygon(pt, ring with ring[1] appended), the GeoJSON closed form.
CallPipClosed ==
    /\ scenario = "pip"
    /\ ppc = "closed"
    /\ pres2' = isPointInPolygon(pt, Append(ring, ring[1]))
    /\ ppc' = "done"
    /\ UNCHANGED <<scenario, restVars, ring, pt, pres, segVars, fetchVars, detVars>>

NextPip == CallPipOpen \/ CallPipClosed

SpecPip == InitPip /\ [][NextPip]_vars

\* ------------------------------------------------------------ fetch spec
\* overpassServers.length
NumServers == 4

\* How one attempt can fail: fetch rejects (network error), the 30 s timer
\* aborts it, the response is not ok, or response.json() rejects.
FailureKinds == {"network", "abort", "non2xx", "parse"}
\* What response.json() can resolve with: an object with an elements array, an
\* object without one, and the falsy JSON values null, false, 0 and "".
JsonValues == {"elements", "object", "null", "false", "zero", "emptystring"}
Outcomes == FailureKinds \cup JsonValues

\* !data
Falsy(v) == v \in {Null, "null", "false", "zero", "emptystring"}

ServerCount(variant) == IF variant = "multi" THEN NumServers ELSE 1

\* A failed attempt that is handled as the last one whatever its index.
AfterFailureGiveUp(idx) == "afterLoop"

\* The catch block: wait and go on to the next endpoint unless this was the
\* last one.
AfterFailure(idx) == IF idx < NumServers THEN "backoff" ELSE "afterLoop"

InitFetch ==
    /\ scenario = "fetch"
    /\ RestIdle
    /\ fvariant \in {"multi", "single"}
    /\ fpc = "attempt"
    /\ serverIndex = 1
    /\ lastError = Null
    /\ data = Null
    /\ attempts = <<>>
    /\ thrown = Null
    /\ SegIdle
    /\ PipIdle
    /\ DetIdle

\* One pass of the loop body of the multi-endpoint analyzeRoadNetwork: the
\* fetch, the ok test and response.json(), up to the break or the catch.
Attempt(outcome) ==
    /\ scenario = "fetch"
    /\ fvariant = "multi"
    /\ fpc = "attempt"
    /\ attempts' = Append(attempts, <<serverIndex, outcome>>)
    /\ IF outcome \in JsonValues
       THEN /\ data' = outcome
            /\ fpc' = "afterLoop"
            /\ UNCHANGED lastError
       ELSE /\ lastError' = <<serverIndex, outcome>>
            /\ fpc' = AfterFailure(serverIndex)
            /\ UNCHANGED data
    /\ UNCHANGED <<scenario, restVars, fvariant, serverIndex, thrown, segVars, pipVars, detVars>>

\* The 2000 ms backoff timer fires and the loop goes on with serverIndex++.
Backoff ==
    /\ scenario = "fetch"
    /\ fpc = "backoff"
    /\ serverIndex' = serverIndex + 1
    /\ fpc' = "attempt"
    /\ UNCHANGED <<scenario, restVars, fvariant, lastError, data, attempts, thrown,
                   segVars, pipVars, detVars>>

\* After the loop: when !data the aggregate error with lastError's message, or
\* the 'unknown error' one when nothing was caught; else the conversion, which
\* reads data.elements (a TypeError when data has no elements array).
AfterLoop ==
    /\ scenario = "fetch"
    /\ fvariant = "multi"
    /\ fpc = "afterLoop"
    /\ IF Falsy(data)
       THEN /\ fpc' = "threw"
            /\ thrown' = IF lastError # Null THEN <<"aggregate", lastError>>
                         ELSE <<"unknown", Null>>
       ELSE IF data = "elements"
       THEN fpc' = "returned" /\ UNCHANGED thrown
       ELSE fpc' = "threw" /\ thrown' = <<"TypeError", Null>>
    /\ UNCHANGED <<scenario, restVars, fvariant, serverIndex, lastError, data, attempts,
                   segVars, pipVars, detVars>>

\* The single-endpoint analyzeRoadNetwork: one fetch inside one try block
\* whose catch rethrows.
AttemptSingle(outcome) ==
    /\ scenario = "fetch"
    /\ fvariant = "single"
    /\ fpc = "attempt"
    /\ attempts' = Append(attempts, <<serverIndex, outcome>>)
    /\ IF outcome = "elements"
       THEN data' = outcome /\ fpc' = "returned" /\ UNCHANGED thrown
       ELSE IF outcome \in JsonValues
       THEN data' = outcome /\ fpc' = "threw" /\ thrown' = <<"TypeError", Null>>
       ELSE fpc' = "threw" /\ thrown' = <<outcome, Null>> /\ UNCHANGED data
    /\ UNCHANGED <<scenario, restVars, fvariant, serverIndex, lastError, segVars, pipVars, detVars>>

NextFetch ==
    \/ \E o \in Outcomes : Attempt(o)
    \/ Backoff
    \/ AfterLoop
    \/ \E o \in Outcomes : AttemptSingle(o)

SpecFetch == InitFetch /\ [][NextFetch]_vars

Failed(a) == a[2] \in FailureKinds
Ended == fpc \in {"returned", "threw"}
ThrewAggregate == fpc = "threw" /\ thrown[1] = "aggregate"

\* C1: the aggregate 'all servers failed' error is thrown only when every
\* endpoint of the list was attempted and every attempt failed, and then it
\* carries the error of the last failed attempt; when some attempt got a 2xx
\* response whose body parsed as JSON, whatever the value, it is not thrown.
C1_AggregateOnlyWhenAllFailed ==
    /\ ThrewAggregate =>
          /\ Len(attempts) = NumServers
          /\ \A k \in 1..Len(attempts) : Failed(attempts[k])
          /\ thrown[2] = attempts[Len(attempts)]
    /\ (\E k \in 1..Len(attempts) : attempts[k][2] \in JsonValues) => ~ThrewAggregate

\* C2: endpoints are attempted in list order, each at most once, none after a
\* successful attempt, and the call does not end on a failed attempt against
\* an endpoint that is not the last of the list: the next one is attempted.
C2_FailoverOrder ==
    /\ \A k \in 1..Len(attempts) : attempts[k][1] = k
    /\ Len(attempts) <= ServerCount(fvariant)
    /\ \A k \in 1..(Len(attempts) - 1) : Failed(attempts[k])
    /\ (Ended /\ attempts # <<>> /\ Failed(attempts[Len(attempts)]))
          => Len(attempts) = ServerCount(fvariant)
    /\ (fpc = "attempt" /\ attempts # <<>>)
          => /\ Failed(attempts[Len(attempts)])
             /\ serverIndex = Len(attempts) + 1
    /\ Ended => attempts # <<>>

\* C2 witness: two endpoints failed, the third answered, the call returned
\* and the fourth endpoint was never attempted.
C2_Witness ==
    /\ fvariant = "multi"
    /\ fpc = "returned"
    /\ Len(attempts) = 3
    /\ Failed(attempts[1]) /\ Failed(attempts[2]) /\ ~Failed(attempts[3])

\* ---------------------------------------------------------- builder spec
\* Coordinate sequences of 2..maxLen pairwise distinct points of a set.
LinesOver(points, maxLen) ==
    {l \in UNION {[1..n -> points] : n \in 2..maxLen} :
        \A a, b \in 1..Len(l) : a # b => l[a] # l[b]}

\* Two roads of up to MaxVerts vertices each and MaxNetVerts together, on a
\* grid of DetStep spacing.
DetPoints ==
    {<<R(DetStep * x), R(DetStep * y)>> : x \in 0..DetMaxX, y \in 0..DetMaxY}
DetLines == LinesOver(DetPoints, MaxVerts)
GridNetworks ==
    {net \in {<<l1, l2>> : l1 \in DetLines, l2 \in DetLines} :
        Len(net[1]) + Len(net[2]) <= MaxNetVerts}

\* Three single-segment roads between the corners of one grid cell.
StarPoints == {<<R(DetStep * x), R(DetStep * y)>> : x \in 0..1, y \in 0..1}
StarLines == LinesOver(StarPoints, 2)
StarNetworks == {<<l1, l2, l3>> : l1 \in StarLines, l2 \in StarLines, l3 \in StarLines}

\* A straight road and a road of up to MaxVerts vertices that straddle
\* longitude 0 within a few 1e-5 degrees of latitude 0.
MeridianPoints ==
    {<<R(-1), R(0)>>, <<R(1), R(0)>>, <<R(0), R(-1)>>,
     <<R(-1), R(FarLat)>>, <<R(1), R(FarLat)>>}
MeridianNetworks ==
    {<<l1, l2>> : l1 \in LinesOver(MeridianPoints, 2),
                  l2 \in LinesOver(MeridianPoints, MaxVerts)}

DetNetworks == GridNetworks \cup StarNetworks \cup MeridianNetworks

\* Feature.id as the analyzers set it: the vector analyzer copies the way's
\* id, the raster vectorizer sets none.
RoadId(variant, n) == IF variant = "vector" THEN n ELSE NoId

InitDet ==
    /\ scenario = "builder"
    /\ RestIdle
    /\ dvariant \in {"vector", "raster"}
    /\ \E net \in DetNetworks :
          droads0 = [n \in 1..Len(net) |->
                        LineFeature(RoadId(dvariant, n), net[n])]
    /\ droads = droads0
    /\ dout = <<>>
    /\ dprev = <<>>
    /\ dmap = <<>>
    /\ dfed = "none"
    /\ druns = 0
    /\ SegIdle
    /\ PipIdle
    /\ FetchIdle

\* detectIntersections({features: the caller's road features}).
DetectRoads ==
    /\ scenario = "builder"
    /\ dvariant = "vector"
    /\ druns < MaxRuns
    /\ dout' = detectIntersections(droads)
    /\ droads' = SubSeq(dout', 1, Len(droads))
    /\ dprev' = dout
    /\ dfed' = "roads"
    /\ druns' = druns + 1
    /\ UNCHANGED <<scenario, restVars, dvariant, droads0, dmap, segVars, pipVars, fetchVars>>

\* detectIntersections(the collection the last call returned).
DetectOutput ==
    /\ scenario = "builder"
    /\ dvariant = "vector"
    /\ druns >= 1
    /\ druns < MaxRuns
    /\ dout' = detectIntersections(dout)
    /\ droads' = SubSeq(dout', 1, Len(droads))
    /\ dprev' = dout
    /\ dfed' = "output"
    /\ druns' = druns + 1
    /\ UNCHANGED <<scenario, restVars, dvariant, droads0, dmap, segVars, pipVars, fetchVars>>

\* The raster path's detectIntersections(roadFeatures).
DetectRaster ==
    /\ scenario = "builder"
    /\ dvariant = "raster"
    /\ druns = 0
    /\ dmap' = rasterIntersectionMap(droads)
    /\ dout' = rasterFeatures(dmap')
    /\ dprev' = dout
    /\ dfed' = "roads"
    /\ druns' = druns + 1
    /\ UNCHANGED <<scenario, restVars, dvariant, droads0, droads, segVars, pipVars, fetchVars>>

NextDet == DetectRoads \/ DetectOutput \/ DetectRaster

SpecDet == InitDet /\ [][NextDet]_vars

IsPoint(f) == f.type = "Point"
PointsOf(coll) == SelectSeq(coll, IsPoint)
Range(seq) == {seq[k] : k \in 1..Len(seq)}
NoRepeat(seq) == \A a, b \in 1..Len(seq) : a # b => seq[a] # seq[b]

\* The coordinate rounded to 6 decimals, as a number of 1e-6 degrees.
Rounded6(x) ==
    IF x[1] < 0 THEN -RoundHalfUp(RMul(RAbs(x), R(KeyPerUnit)))
    ELSE RoundHalfUp(RMul(RAbs(x), R(KeyPerUnit)))
RoundedPair(point) == <<Rounded6(point[1]), Rounded6(point[2])>>

\* The locations where the polylines l1 and l2 meet non-parallel sub-segments.
Crossings(l1, l2) == Range(findLineIntersections(l1, l2))

FirstRunDone == druns = 1 /\ dfed = "roads"

\* C3: feeding detectIntersections its own output adds no intersection
\* points: the returned collection holds the same intersection Point
\* features, with the same count, as the collection that was fed in.
C3_FeedbackAddsNoPoints ==
    (dvariant = "vector" /\ dfed = "output") => PointsOf(dout) = PointsOf(dprev)

\* C4: a second run on the same road set (already mutated by the first run)
\* produces the same set of 6-decimal intersection keys and inserts no
\* vertex: every road's coordinates after it equal those after the first run.
C4_SecondRunSame ==
    (dvariant = "vector" /\ druns = 2 /\ dfed = "roads") =>
        /\ {KeyOf(f.coords) : f \in Range(PointsOf(dout))}
              = {KeyOf(f.coords) : f \in Range(PointsOf(dprev))}
        /\ \A n \in 1..Len(droads) : dout[n].coords = dprev[n].coords

\* C5: in the output of one run no two intersection points have coordinates
\* that round to the same 6-decimal (lon, lat) pair.
C5_OnePointPerLocation ==
    FirstRunDone =>
        \A a, b \in 1..Len(PointsOf(dout)) :
            a # b => RoundedPair(PointsOf(dout)[a].coords)
                        # RoundedPair(PointsOf(dout)[b].coords)

\* The connected-road lists one run built, with the key of each: the
\* connectedRoads of the vector variant's Point features, the roads of the
\* raster variant's map entries.
ConnectedLists ==
    IF dvariant = "vector"
    THEN {<<KeyOf(f.coords), f.connectedRoads>> : f \in Range(PointsOf(dout))}
    ELSE {<<e.key, e.roads>> : e \in Range(dmap)}

\* C6: the connected-road list of every intersection point holds no
\* identifier twice and holds the identifiers of both roads of every road
\* pair that produced a hit at the point's key.
C6_ConnectedRoads ==
    FirstRunDone =>
        /\ \A c \in ConnectedLists : NoRepeat(c[2])
        /\ \A i, j \in 1..Len(droads0) :
              i < j =>
                \A h \in Crossings(droads0[i].coords, droads0[j].coords) :
                    \E c \in ConnectedLists :
                        /\ c[1] = KeyOf(h)
                        /\ Includes(c[2], droads0[i].id)
                        /\ Includes(c[2], droads0[j].id)

\* Two single-segment roads on one line that have exactly one point in
\* common, an end point of both.
CollinearTouch(l1, l2) ==
    /\ Len(l1) = 2 /\ Len(l2) = 2
    /\ Orient(l1[1], l1[2], l2[1]) = R(0)
    /\ Orient(l1[1], l1[2], l2[2]) = R(0)
    /\ \E a \in 1..2, b \in 1..2 :
          /\ l1[a] = l2[b]
          /\ ~OnClosedSeg(l1[3 - a], l2[1], l2[2])
          /\ ~OnClosedSeg(l2[3 - b], l1[1], l1[2])

\* C7: two collinear road segments that only touch at a shared end point
\* produce exactly one intersection Point feature, whose connectedRoads holds
\* both road ids.
C7_CollinearTouch ==
    (dvariant = "vector" /\ FirstRunDone /\ Len(droads0) = 2
       /\ CollinearTouch(droads0[1].coords, droads0[2].coords)) =>
        /\ Len(PointsOf(dout)) = 1
        /\ Includes(PointsOf(dout)[1].connectedRoads, droads0[1].id)
        /\ Includes(PointsOf(dout)[1].connectedRoads, droads0[2].id)

\* The locations where two of the roads, as they were given, cross.
AllCrossings ==
    UNION {Crossings(droads0[i].coords, droads0[j].coords) :
              <<i, j>> \in {q \in (1..Len(droads0)) \X (1..Len(droads0)) : q[1] < q[2]}}

\* C8: every intersecting pair of sub-segments of a road pair is reported:
\* two polylines that cross at k distinct locations yield k intersection
\* points.
C8_AllCrossings ==
    FirstRunDone =>
        /\ Len(PointsOf(dout)) = Cardinality(AllCrossings)
        /\ {f.coords : f \in Range(PointsOf(dout))} = AllCrossings

C10_PointInPolygon ==
    /\ ppc \in {"closed", "done"} =>
          /\ StrictlyInside(pt, ring) => pres = TRUE
          /\ StrictlyOutside(pt, ring) => pres = FALSE
    /\ ppc = "done" => pres2 = pres

\* C10 witness: the square ring [(0,0),(2,0),(2,2),(0,2)] and its centre
\* (1,1), found inside with and without the closing vertex.
C10_Witness ==
    /\ ppc = "done"
    /\ ring = <<<<R(0), R(0)>>, <<R(2), R(0)>>, <<R(2), R(2)>>, <<R(0), R(2)>>>>
    /\ pt = <<R(1), R(1)>>
    /\ StrictlyInside(pt, ring)
    /\ pres = TRUE
    /\ pres2 = TRUE

\* -------------------------------------------------------- boundary clipper
\* The features of a region: geometry.type and, for a Polygon, its outer ring
\* coordinates[0]; for a Point or LineString, its coordinates.  A feature
\* whose geometry is null has type "nogeometry".
RegionPolygon(outerRing) == [type |-> "Polygon", coords |-> outerRing]
RegionPoint(point) == [type |-> "Point", coords |-> point]
RegionLine(coords) == [type |-> "LineString", coords |-> coords]
RegionNoGeometry == [type |-> "nogeometry", coords |-> <<>>]

IsPolygon(f) == f.type = "Polygon"

\* for (const coord of coordinates) if (isPointInPolygon(coord, polygon))
someCoordInside(coordinates, polygon) ==
    \E c \in 1..Len(coordinates) : isPointInPolygon(coordinates[c], polygon)

\* The loop over boundaryPolygons that sets hasIntersection.
hasIntersection(coordinates, boundaryPolygons) ==
    \E k \in 1..Len(boundaryPolygons) :
        /\ Len(boundaryPolygons[k].coords) >= 3
        /\ someCoordInside(coordinates, boundaryPolygons[k].coords)

RECURSIVE clippedFrom(_, _, _)
\* roads.forEach: features that are no LineString are passed over, a
\* LineString is pushed when hasIntersection.
clippedFrom(roads, boundaryPolygons, k) ==
    IF k > Len(roads) THEN <<>>
    ELSE IF roads[k].type = "LineString"
            /\ hasIntersection(roads[k].coords, boundaryPolygons)
    THEN <<roads[k]>> \o clippedFrom(roads, boundaryPolygons, k + 1)
    ELSE clippedFrom(roads, boundaryPolygons, k + 1)

\* With the polygons of the region filtered out.
clipAgainst(roads, boundaryPolygons) ==
    IF Len(boundaryPolygons) = 0 THEN roads
    ELSE clippedFrom(roads, boundaryPolygons, 1)

\* clipRoadsToBoundary(roads, boundary) of the vector analyzers.  The filter
\* reads f.geometry.type of every region feature: a TypeError when a
\* geometry is null.
clipThrows(boundary) == \E k \in 1..Len(boundary) : boundary[k].type = "nogeometry"

clipRoadsToBoundary(roads, boundary) ==
    IF clipThrows(boundary) THEN "TypeError"
    ELSE clipAgainst(roads, SelectSeq(boundary, IsPolygon))

RECURSIVE rasterKeptFrom(_, _, _)
\* features.filter of the raster clipper, against one ring.
rasterKeptFrom(features, boundaryCoords, k) ==
    IF k > Len(features) THEN <<>>
    ELSE IF \/ /\ features[k].type = "LineString"
               /\ someCoordInside(features[k].coords, boundaryCoords)
            \/ /\ features[k].type = "Point"
               /\ isPointInPolygon(features[k].coords, boundaryCoords)
    THEN <<features[k]>> \o rasterKeptFrom(features, boundaryCoords, k + 1)
    ELSE rasterKeptFrom(features, boundaryCoords, k + 1)

\* clipRoadsToBoundary(features, boundaryFeature) of the raster analyzer.
rasterClipRoadsToBoundary(features, boundaryFeature) ==
    IF boundaryFeature.type # "Polygon" THEN features
    ELSE rasterKeptFrom(features, boundaryFeature.coords, 1)

\* Sequences of 0..maxLen elements of a set.
SeqsUpTo(set, maxLen) == UNION {[1..n -> set] : n \in 0..maxLen}

P2(x, y) == <<R(x), R(y)>>
SquareA == <<P2(0, 0), P2(2, 0), P2(2, 2), P2(0, 2)>>
SquareB == <<P2(4, 0), P2(6, 0), P2(6, 2), P2(4, 2)>>
\* A ring of fewer than 3 vertices.
Sliver == <<P2(0, 0), P2(2, 2)>>

\* The region features the clipper is tried against.
ClipRegionFeatures ==
    <<RegionPolygon(SquareA), RegionPolygon(SquareB), RegionPolygon(Sliver),
      RegionPoint(P2(1, 1)), RegionNoGeometry>>

\* The sequence of the catalogue's elements at the given indexes.
Pick(catalogue, indexes) == [k \in 1..Len(indexes) |-> catalogue[indexes[k]]]

IndexSeqs(catalogue, minLen, maxLen) ==
    UNION {[1..n -> 1..Len(catalogue)] : n \in minLen..maxLen}

\* One point in each square and two outside both.
ClipPoints == {P2(1, 1), P2(5, 1), P2(3, 1), P2(1, 3)}
\* A feature to clip, as <<geometry type, first point, last point>>.
ClipInputs ==
    {<<"LineString", l[1], l[2]>> : l \in LinesOver(ClipPoints, 2)}
        \cup {<<"Point", q, q>> : q \in ClipPoints}

ClipFeature(input) ==
    IF input[1] = "Point" THEN PointFeature(input[2], 1, 2)
    ELSE LineFeature(1, <<input[2], input[3]>>)

\* The vector analyzers reach the clipper only after getBoundingBox found a
\* coordinate in the region.
yieldsCoordinate(region) ==
    \E k \in 1..Len(region) : region[k].type \in {"Polygon", "Point"}

InitClip ==
    /\ scenario = "clipper"
    /\ cvariant \in {"vector", "raster"}
    /\ \E indexes \in IndexSeqs(ClipRegionFeatures, 1, MaxRegion) :
           cregion = Pick(ClipRegionFeatures, indexes)
    /\ cvariant = "vector" => yieldsCoordinate(cregion)
    /\ \E inputs \in SeqsUpTo(ClipInputs, MaxClipped) :
           cfeatures = [k \in 1..Len(inputs) |-> ClipFeature(inputs[k])]
    /\ cout = <<>>
    /\ cpc = "call"
    /\ KernelIdle
    /\ LateIdle
    /\ BoxIdle
    /\ PipeIdle
    /\ NormIdle

\* clipRoadsToBoundary(rawFeatures, bounds) as the vector analyzers call it.
ClipVector ==
    /\ scenario = "clipper"
    /\ cvariant = "vector"
    /\ cpc = "call"
    /\ IF clipThrows(cregion)
       THEN cout' = <<>> /\ cpc' = "thrown"
       ELSE cout' = clipRoadsToBoundary(cfeatures, cregion) /\ cpc' = "done"
    /\ UNCHANGED <<scenario, cvariant, cregion, cfeatures, kernelVars, lateVars,
                   boxVars, pipeVars, normVars>>

\* clipRoadsToBoundary(finalFeatures, geojson.features[0]) as the raster
\* analyzer calls it.
ClipRaster ==
    /\ scenario = "clipper"
    /\ cvariant = "raster"
    /\ cpc = "call"
    /\ cout' = rasterClipRoadsToBoundary(cfeatures, cregion[1])
    /\ cpc' = "done"
    /\ UNCHANGED <<scenario, cvariant, cregion, cfeatures, kernelVars, lateVars,
                   boxVars, pipeVars, normVars>>

NextClip == ClipVector \/ ClipRaster

SpecClip == InitClip /\ [][NextClip]_vars

\* The point lies strictly inside the outer ring of some Polygon feature of
\* the clipped region.
InsidePolygons(point, region) ==
    \E k \in 1..Len(region) :
        /\ region[k].type = "Polygon"
        /\ Len(region[k].coords) >= 3
        /\ StrictlyInside(point, region[k].coords)

InsideRegion(point) == InsidePolygons(point, cregion)

RegionHasPolygon == \E k \in 1..Len(cregion) : cregion[k].type = "Polygon"

LineExpected(f) ==
    f.type = "LineString" /\ \E c \in 1..Len(f.coords) : InsideRegion(f.coords[c])

PointExpected(f) == f.type = "Point" /\ InsideRegion(f.coords)

IsLineString(f) == f.type = "LineString"

\* C11: for a region with at least one Polygon, the clipper keeps a
\* LineString feature if and only if one of its coordinates is inside the
\* outer ring of some Polygon feature of the region, and a kept feature has
\* its whole coordinate sequence.
C11_ClipKeepsLines ==
    (cpc # "call" /\ RegionHasPolygon) =>
        /\ cpc = "done"
        /\ SelectSeq(cout, IsLineString) = SelectSeq(cfeatures, LineExpected)

\* C12: for a region with at least one Polygon, the clipper keeps a Point
\* feature if and only if the point is inside some boundary polygon.
C12_ClipKeepsPoints ==
    (cpc # "call" /\ RegionHasPolygon) =>
        /\ cpc = "done"
        /\ SelectSeq(cout, IsPoint) = SelectSeq(cfeatures, PointExpected)

\* C13: when the region has no Polygon feature the clipper returns exactly
\* the input features, in the same order.
C13_ClipIdentity ==
    (cpc # "call" /\ ~RegionHasPolygon) => (cpc = "done" /\ cfeatures = cout)

\* ------------------------------------------------------------ bounding box
\* Number.POSITIVE_INFINITY and Number.NEGATIVE_INFINITY.
PosInf == "Infinity"
NegInf == "-Infinity"

\* Math.min and Math.max of the running extreme and a coordinate.
MathMin(acc, v) == IF acc = PosInf THEN v ELSE IF RLt(v, acc) THEN v ELSE acc
MathMax(acc, v) == IF acc = NegInf THEN v ELSE IF RLt(acc, v) THEN v ELSE acc

\* let minLat = Infinity, maxLat = -Infinity, minLon = Infinity, maxLon = -Infinity
EmptyBox == [minLat |-> PosInf, maxLat |-> NegInf, minLon |-> PosInf, maxLon |-> NegInf]

\* const [lon, lat] = coord, then the four Math.min / Math.max updates.
extend(box, coord) ==
    [minLon |-> MathMin(box.minLon, coord[1]),
     maxLon |-> MathMax(box.maxLon, coord[1]),
     minLat |-> MathMin(box.minLat, coord[2]),
     maxLat |-> MathMax(box.maxLat, coord[2])]

RECURSIVE extendOverRing(_, _, _)
\* coordinates[0].forEach
extendOverRing(box, outerRing, i) ==
    IF i > Len(outerRing) THEN box
    ELSE extendOverRing(extend(box, outerRing[i]), outerRing, i + 1)

RECURSIVE boxFrom(_, _, _)
\* geojson.features.forEach of getBoundingBox: Polygon and Point features.
boxFrom(box, features, k) ==
    IF k > Len(features) THEN box
    ELSE IF features[k].type = "Polygon"
    THEN boxFrom(extendOverRing(box, features[k].coords, 1), features, k + 1)
    ELSE IF features[k].type = "Point"
    THEN boxFrom(extend(box, features[k].coords), features, k + 1)
    ELSE boxFrom(box, features, k + 1)

RECURSIVE rasterBoxFrom(_, _, _)
\* geojson.features.forEach of getBoundingBoxFromGeoJSON: Polygon features.
rasterBoxFrom(box, features, k) ==
    IF k > Len(features) THEN box
    ELSE IF features[k].type = "Polygon"
    THEN rasterBoxFrom(extendOverRing(box, features[k].coords, 1), features, k + 1)
    ELSE rasterBoxFrom(box, features, k + 1)

\* return { north: maxLat, south: minLat, east: maxLon, west: minLon }
boxOf(box) ==
    [north |-> box.maxLat, south |-> box.minLat, east |-> box.maxLon, west |-> box.minLon]

NoFeatures == "no features"
NoCoordinates == "no coordinates"

\* The error getBoundingBox throws, or Null.
boundingBoxError(features) ==
    IF Len(features) = 0 THEN NoFeatures
    ELSE IF boxFrom(EmptyBox, features, 1).minLat = PosInf THEN NoCoordinates
    ELSE Null

\* getBoundingBox of the vector analyzers: the box, or the error thrown.
getBoundingBox(features) ==
    IF boundingBoxError(features) # Null THEN boundingBoxError(features)
    ELSE boxOf(boxFrom(EmptyBox, features, 1))

\* getBoundingBoxFromGeoJSON of the raster analyzer.
getBoundingBoxFromGeoJSON(features) == boxOf(rasterBoxFrom(EmptyBox, features, 1))

Triangle == <<P2(-1, 1), P2(3, -2), P2(1, 4)>>
\* The region features the boxes are computed over.
BoxRegionFeatures ==
    <<RegionPolygon(SquareA), RegionPolygon(Triangle), RegionPolygon(<<>>),
      RegionPoint(P2(5, -3)), RegionPoint(P2(1, 1)),
      RegionLine(<<P2(7, 7), P2(8, 8)>>), RegionNoGeometry>>

InitBox ==
    /\ scenario = "bbox"
    /\ bvariant \in {"vector", "raster"}
    /\ \E indexes \in IndexSeqs(BoxRegionFeatures, 0, MaxBoxRegion) :
           bregion = Pick(BoxRegionFeatures, indexes)
    /\ bbox = Null
    /\ bpc = "start"
    /\ KernelIdle
    /\ LateIdle
    /\ ClipIdle
    /\ PipeIdle
    /\ NormIdle

\* analyzeRoadNetwork up to the Overpass request: getBoundingBox throws, or
\* its box goes into the query.
StartVector ==
    /\ scenario = "bbox"
    /\ bvariant = "vector"
    /\ bpc = "start"
    /\ IF boundingBoxError(bregion) # Null
       THEN bbox' = Null /\ bpc' = "thrown"
       ELSE bbox' = getBoundingBox(bregion) /\ bpc' = "fetching"
    /\ UNCHANGED <<scenario, bvariant, bregion, kernelVars, lateVars, clipVars,
                   pipeVars, normVars>>

\* analyzeRoadNetworkFromImage up to fetchSatelliteImageTiles(boundingBox).
StartRaster ==
    /\ scenario = "bbox"
    /\ bvariant = "raster"
    /\ bpc = "start"
    /\ IF Len(bregion) = 0
       THEN bbox' = Null /\ bpc' = "thrown"
       ELSE bbox' = getBoundingBoxFromGeoJSON(bregion) /\ bpc' = "fetching"
    /\ UNCHANGED <<scenario, bvariant, bregion, kernelVars, lateVars, clipVars,
                   pipeVars, normVars>>

NextBox == StartVector \/ StartRaster

SpecBox == InitBox /\ [][NextBox]_vars

\* The coordinates the box is to cover: every outer-ring coordinate of a
\* Polygon feature and the coordinate of every Point feature.
RegionCoords ==
    UNION {IF bregion[k].type = "Polygon" THEN Range(bregion[k].coords)
           ELSE IF bregion[k].type = "Point" THEN {bregion[k].coords}
           ELSE {} : k \in 1..Len(bregion)}

Lons == {c[1] : c \in RegionCoords}
Lats == {c[2] : c \in RegionCoords}
IsFinite(v) == v # PosInf /\ v # NegInf
IsMax(v, set) == IsFinite(v) /\ v \in set /\ \A w \in set : RLe(w, v)
IsMin(v, set) == IsFinite(v) /\ v \in set /\ \A w \in set : RLe(v, w)

\* C16: the bounding box has north = the largest latitude, south = the
\* smallest latitude, east = the largest longitude and west = the smallest
\* longitude over every Polygon outer-ring coordinate and every Point
\* feature coordinate of the region.
C16_BoundingBox ==
    (bpc = "fetching" /\ RegionCoords # {}) =>
        /\ IsMax(bbox.north, Lats)
        /\ IsMin(bbox.south, Lats)
        /\ IsMax(bbox.east, Lons)
        /\ IsMin(bbox.west, Lons)

\* C17: an analyzer whose region has no feature, or no feature that yields a
\* coordinate, ends with the input error before it fetches anything, and a
\* box that is used is finite and not inverted.
C17_NoEmptyBox ==
    /\ (bpc # "start" /\ RegionCoords = {}) => bpc = "thrown"
    /\ bpc = "fetching" =>
           /\ IsFinite(bbox.north) /\ IsFinite(bbox.south)
           /\ IsFinite(bbox.east) /\ IsFinite(bbox.west)
           /\ RLe(bbox.south, bbox.north)
           /\ RLe(bbox.west, bbox.east)

\* ------------------------------------------------------ analysis pipeline
\* The way elements as the analyzers turn them into road features: way.id on
\* the vector path, no id on the raster path.
roadFeaturesOf(variant, ways) ==
    [n \in 1..Len(ways) |-> LineFeature(RoadId(variant, n), ways[n])]

\* if (clipToBoundary) clipRoadsToBoundary(rawFeatures, bounds) else rawFeatures
vectorAnalyzed(rawFeatures, bounds, clipToBoundary) ==
    IF clipToBoundary THEN clipRoadsToBoundary(rawFeatures, bounds) ELSE rawFeatures

\* if (clipToBoundary && geojson.features.length > 0)
\*   clipRoadsToBoundary(finalFeatures, geojson.features[0])
rasterClipped(finalFeatures, features, clipToBoundary) ==
    IF clipToBoundary /\ Len(features) > 0
    THEN rasterClipRoadsToBoundary(finalFeatures, features[1])
    ELSE finalFeatures

\* [...roadFeatures, ...intersectionFeatures], clipped on request.
rasterAnalyzed(roadFeatures, features, clipToBoundary) ==
    rasterClipped(roadFeatures \o rasterFeatures(rasterIntersectionMap(roadFeatures)),
                  features, clipToBoundary)

\* f.properties?.isIntersection and its negation, the filters of the page.
withIsIntersection(f) == f.isIntersection
withoutIsIntersection(f) == ~f.isIntersection

PipePoint(x, y) == P2(x * DetStep, y * DetStep)
\* The square region of the end-to-end scenarios.
PipeSquare == <<PipePoint(0, 0), PipePoint(20, 0), PipePoint(20, 20), PipePoint(0, 20)>>
PipeRegions ==
    <<<<RegionPolygon(PipeSquare)>>,
      <<RegionPoint(PipePoint(10, 10)), RegionPolygon(PipeSquare)>>>>
\* Four points around the square, its centre and a second point inside.
PipePoints ==
    {PipePoint(-10, 10), PipePoint(30, 10), PipePoint(10, -10), PipePoint(10, 30),
     PipePoint(10, 10), PipePoint(5, 5)}
\* Straight ways.
PipeLines == LinesOver(PipePoints, 2)

InitPipe ==
    /\ scenario = "pipeline"
    /\ evariant \in {"vector", "raster"}
    /\ eclip \in BOOLEAN
    /\ \E r \in 1..Len(PipeRegions) : eregion = PipeRegions[r]
    /\ eways \in [1..PipeWays -> PipeLines]
    /\ eraw = "pending"
    /\ efinal = "pending"
    /\ eroadSet = <<>>
    /\ epointSet = <<>>
    /\ epc = "start"
    /\ KernelIdle
    /\ LateIdle
    /\ ClipIdle
    /\ BoxIdle
    /\ NormIdle

\* handleAnalyze of the vector page: rawRoadNetwork = analyzeRoadNetwork(
\* inputGeoJson, clipToBoundary).
AnalyzeVector ==
    /\ scenario = "pipeline"
    /\ evariant = "vector"
    /\ epc = "start"
    /\ eraw' = vectorAnalyzed(roadFeaturesOf(evariant, eways), eregion, eclip)
    /\ epc' = "analyzed"
    /\ UNCHANGED <<scenario, evariant, eclip, eregion, eways, efinal, eroadSet,
                   epointSet, kernelVars, lateVars, clipVars, boxVars, normVars>>

\* networkWithIntersections = detectIntersections(rawRoadNetwork), then
\* setRoadNetwork(networkWithIntersections).
DetectVector ==
    /\ scenario = "pipeline"
    /\ evariant = "vector"
    /\ epc = "analyzed"
    /\ efinal' = detectIntersections(eraw)
    /\ epc' = "done"
    /\ UNCHANGED <<scenario, evariant, eclip, eregion, eways, eraw, eroadSet,
                   epointSet, kernelVars, lateVars, clipVars, boxVars, normVars>>

\* fullResult = analyzeRoadNetworkFromImage(inputGeoJson, options,
\* clipToBoundary): roads, raster intersections, optional clip.
AnalyzeRaster ==
    /\ scenario = "pipeline"
    /\ evariant = "raster"
    /\ epc = "start"
    /\ eraw' = roadFeaturesOf(evariant, eways)
    /\ efinal' = rasterAnalyzed(eraw', eregion, eclip)
    /\ epc' = "analyzed"
    /\ UNCHANGED <<scenario, evariant, eclip, eregion, eways, eroadSet,
                   epointSet, kernelVars, lateVars, clipVars, boxVars, normVars>>

\* The page splits fullResult.features by properties.isIntersection into
\* the road network and the intersections.
SplitRaster ==
    /\ scenario = "pipeline"
    /\ evariant = "raster"
    /\ epc = "analyzed"
    /\ eroadSet' = SelectSeq(efinal, withoutIsIntersection)
    /\ epointSet' = SelectSeq(efinal, withIsIntersection)
    /\ epc' = "done"
    /\ UNCHANGED <<scenario, evariant, eclip, eregion, eways, eraw, efinal,
                   kernelVars, lateVars, clipVars, boxVars, normVars>>

NextPipe == AnalyzeVector \/ DetectVector \/ AnalyzeRaster \/ SplitRaster

SpecPipe == InitPipe /\ [][NextPipe]_vars

\* The point exists and lies strictly inside the square.
InsideSquare(x) == x # Null /\ StrictlyInside(x, PipeSquare)

\* The two straight ways cross at a point inside the square.
WaysCrossInside ==
    /\ SegsTouch(eways[1][1], eways[1][2], eways[2][1], eways[2][2])
    /\ ~Parallel(eways[1][1], eways[1][2], eways[2][1], eways[2][2])
    /\ InsideSquare(lineSegmentIntersection(eways[1][1], eways[1][2],
                                            eways[2][1], eways[2][2]))

RoadIdsOf(coll) == [k \in 1..Len(SelectSeq(coll, IsLineString)) |->
                       SelectSeq(coll, IsLineString)[k].id]

\* C14: on the vector path with clipping, for the single square region and
\* two straight ways that cross inside the square, the final result has
\* both roads and exactly one intersection feature, whose connectedRoads
\* has length 2.
C14_CrossInsideSquare ==
    (/\ evariant = "vector" /\ eclip /\ epc = "done"
     /\ eregion = PipeRegions[1]
     /\ WaysCrossInside) =>
        /\ RoadIdsOf(efinal) = <<1, 2>>
        /\ Len(PointsOf(efinal)) = 1
        /\ Len(PointsOf(efinal)[1].connectedRoads) = 2

\* The feature passes the clipper's membership test against the region.
PassesClip(f, region) ==
    IF f.type = "Point" THEN InsidePolygons(f.coords, region)
    ELSE \E c \in 1..Len(f.coords) : InsidePolygons(f.coords[c], region)

\* The result the caller of the analysis holds.
Delivered ==
    \/ evariant = "vector" /\ epc = "done"
    \/ evariant = "raster" /\ epc \in {"analyzed", "done"}

\* C15: with clipping requested, every feature of the final result, the
\* intersection Point features included, passes the clipper's membership
\* test against the original region: no intersection point outside every
\* boundary polygon reaches the caller.
C15_ClipAfterBuilder ==
    (eclip /\ Delivered) =>
        \A k \in 1..Len(efinal) : PassesClip(efinal[k], eregion)

\* C18: every intersection feature of a result is a Point with isIntersection
\* = true and connectedRoads listing its road ids, so that the split by
\* isIntersection gives the Point features as intersections and the
\* LineString features as roads.
C18_SplitByIsIntersection ==
    epc = "done" =>
        /\ \A k \in 1..Len(efinal) :
               efinal[k].type = "Point" =>
                   /\ efinal[k].isIntersection
                   /\ Len(efinal[k].connectedRoads) >= 2
        /\ SelectSeq(efinal, withIsIntersection) = PointsOf(efinal)
        /\ SelectSeq(efinal, withoutIsIntersection) = SelectSeq(efinal, IsLineString)
        /\ evariant = "raster" =>
               /\ epointSet = PointsOf(efinal)
               /\ eroadSet = SelectSeq(efinal, IsLineString)

\* ------------------------------------------------------------ normalisation
\* A property that is absent reads as undefined.
Undefined == "undefined"

\* way.tags?.highway and the like; undefined as well when the way has no
\* tags object.
tagOf(way, category) == way.tags[category]

\* a || b || c || d || "unknown"
firstTruthy(a, b, c, d) ==
    IF a # Undefined THEN a ELSE IF b # Undefined THEN b
    ELSE IF c # Undefined THEN c ELSE IF d # Undefined THEN d ELSE "unknown"

\* properties.type: way.tags?.highway ? "highway" : way.tags?.aeroway ? ...
typeOf(way) ==
    IF tagOf(way, "highway") # Undefined THEN "highway"
    ELSE IF tagOf(way, "aeroway") # Undefined THEN "aeroway"
    ELSE IF tagOf(way, "railway") # Undefined THEN "railway"
    ELSE IF tagOf(way, "waterway") # Undefined THEN "waterway"
    ELSE "unknown"

\* .filter(element => element.type === "way" && element.geometry)
isWayWithGeometry(element) == element.type = "way" /\ element.geometry.kind # "missing"

\* way.geometry.map(node => [node.lon, node.lat]) throws a TypeError when
\* the geometry has no map method or a node is null.
mapFails(way) ==
    \/ way.geometry.kind = "notArray"
    \/ \E k \in 1..Len(way.geometry.nodes) : way.geometry.nodes[k].isNull

coordinatesOf(way) ==
    [k \in 1..Len(way.geometry.nodes) |->
        <<way.geometry.nodes[k].lon, way.geometry.nodes[k].lat>>]

\* The feature of the single-endpoint analyzer.
singleFeature(way) ==
    [type |-> "LineString", id |-> way.id, coords |-> coordinatesOf(way),
     highway |-> firstTruthy(tagOf(way, "highway"), tagOf(way, "aeroway"),
                             tagOf(way, "railway"), tagOf(way, "waterway")),
     class |-> typeOf(way), index |-> Undefined]

\* The feature of the multi-endpoint analyzer: properties {index} only.
multiFeature(way, index) ==
    [type |-> "LineString", id |-> Undefined, coords |-> coordinatesOf(way),
     highway |-> Undefined, class |-> Undefined, index |-> index]

\* Some way that passes the filter makes the map callback throw.
normalizeThrows(elements) ==
    \E k \in 1..Len(SelectSeq(elements, isWayWithGeometry)) :
        mapFails(SelectSeq(elements, isWayWithGeometry)[k])

\* data.elements.filter(...).map(...) of the analyzer variant.
normalize(variant, elements) ==
    [k \in 1..Len(SelectSeq(elements, isWayWithGeometry)) |->
        IF variant = "single"
        THEN singleFeature(SelectSeq(elements, isWayWithGeometry)[k])
        ELSE multiFeature(SelectSeq(elements, isWayWithGeometry)[k], k - 1)]

Categories == <<"highway", "aeroway", "railway", "waterway">>
TagValues == <<"residential", "runway", "rail", "river">>

\* The tags of a way that carries the categories of the given indexes.
TagsWith(present) ==
    [c \in Range(Categories) |->
        IF \E i \in present : Categories[i] = c
        THEN TagValues[CHOOSE i \in present : Categories[i] = c]
        ELSE Undefined]

Node(x, y) == [isNull |-> FALSE, lon |-> R(x), lat |-> R(y)]
NodeWithoutLonLat == [isNull |-> FALSE, lon |-> Undefined, lat |-> Undefined]
NullNode == [isNull |-> TRUE, lon |-> Undefined, lat |-> Undefined]

ArrayGeometry(nodes) == [kind |-> "array", nodes |-> nodes]
MissingGeometry == [kind |-> "missing", nodes |-> <<>>]
NotArrayGeometry == [kind |-> "notArray", nodes |-> <<>>]
TwoNodes == ArrayGeometry(<<Node(0, 0), Node(1, 1)>>)

WayElement(id, tags, geometry) ==
    [type |-> "way", id |-> id, tags |-> tags, geometry |-> geometry]

RECURSIVE TaggedWays(_)
\* Well-formed ways with the given tag combinations, as a sequence.
TaggedWays(sets) ==
    IF sets = {} THEN <<>>
    ELSE <<WayElement(7, TagsWith(CHOOSE t \in sets : TRUE), TwoNodes)>>
             \o TaggedWays(sets \ {CHOOSE t \in sets : TRUE})

\* The elements a response is made of: well-formed ways with every
\* combination of category tags, and the malformed elements.
NormElements ==
    TaggedWays(SUBSET (1..Len(Categories)))
        \o <<WayElement(9, TagsWith({1}), MissingGeometry),
             WayElement(9, TagsWith({1}), NotArrayGeometry),
             WayElement(9, TagsWith({1}), ArrayGeometry(<<>>)),
             WayElement(9, TagsWith({1}), ArrayGeometry(<<Node(0, 0)>>)),
             WayElement(9, TagsWith({1}), ArrayGeometry(<<Node(0, 0), NodeWithoutLonLat>>)),
             WayElement(9, TagsWith({1}), ArrayGeometry(<<Node(0, 0), NullNode>>)),
             [type |-> "node", id |-> 5, tags |-> TagsWith({}), geometry |-> MissingGeometry]>>

InitNorm ==
    /\ scenario = "normalize"
    /\ nvariant \in {"single", "multi"}
    /\ \E indexes \in IndexSeqs(NormElements, 0, MaxBatch) :
           nelements = Pick(NormElements, indexes)
    /\ nout = <<>>
    /\ npc = "start"
    /\ KernelIdle
    /\ LateIdle
    /\ ClipIdle
    /\ BoxIdle
    /\ PipeIdle

\* The conversion of data.elements in analyzeRoadNetwork of road-analyzer;
\* a TypeError leaves the try block and is rethrown.
NormalizeSingle ==
    /\ scenario = "normalize"
    /\ nvariant = "single"
    /\ npc = "start"
    /\ IF normalizeThrows(nelements)
       THEN nout' = <<>> /\ npc' = "thrown"
       ELSE nout' = normalize("single", nelements) /\ npc' = "done"
    /\ UNCHANGED <<scenario, nvariant, nelements, kernelVars, lateVars, clipVars,
                   boxVars, pipeVars>>

\* The conversion in the multi-endpoint analyzeRoadNetwork.
NormalizeMulti ==
    /\ scenario = "normalize"
    /\ nvariant = "multi"
    /\ npc = "start"
    /\ IF normalizeThrows(nelements)
       THEN nout' = <<>> /\ npc' = "thrown"
       ELSE nout' = normalize("multi", nelements) /\ npc' = "done"
    /\ UNCHANGED <<scenario, nvariant, nelements, kernelVars, lateVars, clipVars,
                   boxVars, pipeVars>>

NextNorm == NormalizeSingle \/ NormalizeMulti

SpecNorm == InitNorm /\ [][NextNorm]_vars

HasCategory(way, i) == way.tags[Categories[i]] # Undefined

\* The category of the way by precedence: the first of highway, aeroway,
\* railway, waterway it carries.
IsFirstCategory(way, name) ==
    \E i \in 1..Len(Categories) :
        /\ Categories[i] = name
        /\ HasCategory(way, i)
        /\ \A j \in 1..(i - 1) : ~HasCategory(way, j)

\* The ways of the batch that reach the conversion.
WaysIn == SelectSeq(nelements, isWayWithGeometry)

\* C19: each way is turned into a LineString feature tagged with the first
\* of highway, aeroway, railway, waterway that the way carries, and every
\* emitted feature carries such a tag.
C19_Classification ==
    npc = "done" =>
        \A k \in 1..Len(nout) :
            /\ nout[k].type = "LineString"
            /\ nout[k].class # Undefined
            /\ (\E i \in 1..Len(Categories) : HasCategory(WaysIn[k], i)) =>
                   IsFirstCategory(WaysIn[k], nout[k].class)

\* A way with an array geometry of at least 2 nodes that all have lon and lat.
WellFormed(element) ==
    /\ element.type = "way"
    /\ element.geometry.kind = "array"
    /\ Len(element.geometry.nodes) >= 2
    /\ \A k \in 1..Len(element.geometry.nodes) :
           /\ ~element.geometry.nodes[k].isNull
           /\ element.geometry.nodes[k].lon # Undefined
           /\ element.geometry.nodes[k].lat # Undefined

\* C20: a malformed element is skipped and the rest of the batch is still
\* returned: the conversion does not abort, the features emitted are those
\* of the well-formed ways, and each has at least 2 coordinate pairs.
C20_MalformedSkipped ==
    npc # "start" =>
        /\ npc = "done"
        /\ Len(nout) = Len(SelectSeq(nelements, WellFormed))
        /\ \A k \in 1..Len(nout) : Len(nout[k].coords) >= 2

\* ------------------------------------------------------------ binarization
\* const threshold = 255 * (1 - options.sensitivity)
thresholdOf(s) == RMul(R(White), RSub(R(1), s))

\* The comparison the other way round.
isForegroundInverted(value, threshold) == RLt(R(value), threshold)
\* data[i] > threshold
isForeground(value, threshold) == RLt(threshold, R(value))

\* binaryData[pixelIndex] = data[i] > threshold ? 255 : 0, for every pixel.
binarize(pixels, s) ==
    [i \in 1..Len(pixels) |->
        IF isForeground(pixels[i], thresholdOf(s)) THEN White ELSE 0]

\* The sensitivities k/SensSteps of the range 0.1 to 1.0.
Sensitivities ==
    {RDiv(R(k), R(SensSteps)) : k \in {j \in 1..SensSteps : 10 * j >= SensSteps}}

\* Intensities next to the thresholds 25.5, 76.5, 127.5 and 229.5 and the
\* extremes.
Intensities == {0, 25, 26, 76, 77, 127, 128, 229, 230, White}

InitBin ==
    /\ scenario = "binarize"
    /\ image \in UNION {[1..n -> Intensities] : n \in 1..MaxPixels}
    /\ sensitivity \in Sensitivities \X Sensitivities
    /\ binaryData = <<>>
    /\ OnlyBin

\* Step 1 of detectAndVectorizeRoads, run with the first sensitivity and
\* then, on the same image, with the second.
Binarize ==
    /\ scenario = "binarize"
    /\ Len(binaryData) < 2
    /\ binaryData' = Append(binaryData, binarize(image, sensitivity[Len(binaryData) + 1]))
    /\ UNCHANGED <<image, sensitivity, exceptBinVars>>

NextBin == Binarize

SpecBin == InitBin /\ [][NextBin]_vars

\* The pixel's intensity is above 255 x (1 - n/d), in integers.
AboveThreshold(value, s) == value * s[2] > White * (s[2] - s[1])

\* C21: a pixel is foreground iff its intensity is above 255 x (1 -
\* sensitivity), and for s1 <= s2 the foreground set at s1 is a subset of the
\* foreground set at s2.
C21_BinarizeMonotone ==
    /\ \A r \in 1..Len(binaryData) : \A i \in 1..Len(image) :
           binaryData[r][i] = White <=> AboveThreshold(image[i], sensitivity[r])
    /\ (Len(binaryData) = 2 /\ RLe(sensitivity[1], sensitivity[2])) =>
           \A i \in 1..Len(image) :
               binaryData[1][i] = White => binaryData[2][i] = White

\* Both runs made, the second with the larger sensitivity, and a pixel that
\* is foreground only in the second next to one that is foreground in both.
C21_Witness ==
    /\ Len(binaryData) = 2
    /\ RLt(sensitivity[1], sensitivity[2])
    /\ \E i, j \in 1..Len(image) :
           /\ binaryData[1][i] = 0 /\ binaryData[2][i] = White
           /\ binaryData[1][j] = White /\ binaryData[2][j] = White

\* ------------------------------------------------------------ vectorization
\* pixelToLatLng: [lng, lat] of a pixel of the image laid over the box.
pixelToLatLng(pixel, boundingBox, imageWidth, imageHeight) ==
    <<RAdd(boundingBox.west,
           RMul(RDiv(R(pixel.x), R(imageWidth)),
                RSub(boundingBox.east, boundingBox.west))),
      RSub(boundingBox.north,
           RMul(RDiv(R(pixel.y), R(imageHeight)),
                RSub(boundingBox.north, boundingBox.south)))>>

\* Math.sqrt(dx * dx + dy * dy) for a step along one axis, the only steps
\* the components checked here make.
stepLength(dx, dy) == IF dx = R(0) THEN RAbs(dy) ELSE RAbs(dx)

RECURSIVE lengthFrom(_, _, _)
\* The loop of calculateRoadLength from index i on: metres, the coordinates
\* being in model units.
lengthFrom(coordinates, i, length) ==
    IF i > Len(coordinates) THEN length
    ELSE LET sum == RAdd(length,
                      RMul(stepLength(RSub(coordinates[i][1], coordinates[i - 1][1]),
                                      RSub(coordinates[i][2], coordinates[i - 1][2])),
                           RDiv(R(MetresPerDegree), R(Scale))))
         \* (a denominator is positive: the sum is computed at every step)
         IN  IF sum[2] > 0 THEN lengthFrom(coordinates, i + 1, sum) ELSE sum

calculateRoadLength(coordinates) == lengthFrom(coordinates, 2, R(0))

\* let roadType = 'residential'; if (roadLength > 1000) ... else if ...
roadTypeOf(roadLength) ==
    IF RLt(R(1000), roadLength) THEN "primary"
    ELSE IF RLt(R(500), roadLength) THEN "secondary"
    ELSE IF RLt(R(200), roadLength) THEN "tertiary"
    ELSE "residential"

\* The feature pushed for a component: properties {index} and the geometry;
\* the local roadType is not stored.
roadOf(coordinates, index) ==
    [type |-> "LineString", coords |-> coordinates, index |-> index,
     roadType |-> "undefined"]

projected(component, boundingBox) ==
    [k \in 1..Len(component) |->
        pixelToLatLng(component[k], boundingBox, ImageSize, ImageSize)]

RECURSIVE roadsFrom(_, _, _, _)
\* components.forEach((component, index) => ...): components shorter than
\* minRoadWidth are passed over.
roadsFrom(comps, boundingBox, minRoadWidth, k) ==
    IF k > Len(comps) THEN <<>>
    ELSE IF Len(comps[k]) < minRoadWidth
    THEN roadsFrom(comps, boundingBox, minRoadWidth, k + 1)
    ELSE <<roadOf(projected(comps[k], boundingBox), k - 1)>>
             \o roadsFrom(comps, boundingBox, minRoadWidth, k + 1)

\* The box from (0,0) to (side, side), in model units.
SquareBox(side) == [north |-> R(side), south |-> R(0), east |-> R(side), west |-> R(0)]

\* A straight run of n pixels from (x0, y0), along x or along y.
PixelRun(x0, y0, n, alongX) ==
    [k \in 1..n |-> IF alongX THEN [x |-> x0 + k - 1, y |-> y0]
                    ELSE [x |-> x0, y |-> y0 + k - 1]]

\* Runs whose lengths fall in each of the four classes when a pixel is 20
\* units (22.2 m) wide: 111 m, 222 m, 532.8 m and 1021.2 m.
PixelRuns ==
    {PixelRun(x0, x0, n, alongX) :
        x0 \in {0, 5}, n \in {6, 11, 25, 47}, alongX \in BOOLEAN}

InitType ==
    /\ scenario = "vectorize"
    /\ vbox \in {SquareBox(ImageSize), SquareBox(20 * ImageSize)}
    /\ vcomponents \in UNION {[1..n -> PixelRuns] : n \in 1..MaxComponents}
    /\ vminWidth \in {3, 30}
    /\ vroads = <<>>
    /\ vtypes = <<>>
    /\ vpc = "call"
    /\ OnlyType

\* Step 4 of detectAndVectorizeRoads.
Vectorize ==
    /\ scenario = "vectorize"
    /\ vpc = "call"
    /\ vroads' = roadsFrom(vcomponents, vbox, vminWidth, 1)
    /\ vtypes' = [k \in 1..Len(vroads') |->
                     roadTypeOf(calculateRoadLength(vroads'[k].coords))]
    /\ vpc' = "done"
    /\ UNCHANGED <<vbox, vcomponents, vminWidth, exceptTypeVars>>

NextType == Vectorize

SpecType == InitType /\ [][NextType]_vars

\* The length in metres of a straight chain: 111000 m per degree between
\* its ends.
StraightMetres(coordinates) ==
    RMul(RAdd(RAbs(RSub(coordinates[Len(coordinates)][1], coordinates[1][1])),
              RAbs(RSub(coordinates[Len(coordinates)][2], coordinates[1][2]))),
         RDiv(R(MetresPerDegree), R(Scale)))

ExpectedRoadType(metres) ==
    IF RLe(metres, R(200)) THEN "residential"
    ELSE IF RLe(metres, R(500)) THEN "tertiary"
    ELSE IF RLe(metres, R(1000)) THEN "secondary"
    ELSE "primary"

\* C22: each road feature of the raster pipeline carries the road type of
\* its length: primary above 1000 m, secondary above 500 m, tertiary above
\* 200 m, residential otherwise.
C22_RoadTypeByLength ==
    vpc = "done" =>
        \A k \in 1..Len(vroads) :
            vroads[k].roadType = ExpectedRoadType(StraightMetres(vroads[k].coords))

\* ------------------------------------------- where the builder splices
\* The vertices of a road after the run that its original did not have.
InsertedAt(n) ==
    {k \in 1..Len(droads[n].coords) :
        droads[n].coords[k] \notin Range(droads0[n].coords)}

WithinTolerance(p, q) ==
    /\ RLt(RAbs(RSub(p[1], q[1])), TolLen)
    /\ RLt(RAbs(RSub(p[2], q[2])), TolLen)

\* C23: a vertex that updateRoadWithIntersection inserted stands between two
\* neighbours and lies on the segment from the one to the other, so the
\* traced geometry is the original's; and it is within tolerance of no other
\* vertex of the road.
C23_InsertedOnItsSegment ==
    (FirstRunDone /\ dvariant = "vector") =>
        \A n \in 1..Len(droads) :
            \A k \in InsertedAt(n) :
                /\ 1 < k /\ k < Len(droads[n].coords)
                /\ OnClosedSeg(droads[n].coords[k], droads[n].coords[k - 1],
                               droads[n].coords[k + 1])
                /\ \A j \in 1..Len(droads[n].coords) :
                      j # k => ~WithinTolerance(droads[n].coords[k], droads[n].coords[j])

\* ------------------------------------------- what the builder leaves alone
RECURSIVE IsSubsequence(_, _)
\* The elements of a occur in b in the same order.
IsSubsequence(a, b) ==
    IF a = <<>> THEN TRUE
    ELSE IF b = <<>> THEN FALSE
    ELSE IF Head(a) = Head(b) THEN IsSubsequence(Tail(a), Tail(b))
    ELSE IsSubsequence(a, Tail(b))

\* The features the last call of detectIntersections was given.
DetInput ==
    IF druns = 1 THEN droads0
    ELSE IF dfed = "output" THEN dprev
    ELSE SubSeq(dprev, 1, Len(droads0))

\* The feature is the given one, with vertices inserted if it is a line.
SameButInserted(given, result) ==
    /\ result.type = given.type
    /\ result.id = given.id
    /\ result.isIntersection = given.isIntersection
    /\ result.connectedRoads = given.connectedRoads
    /\ IF given.type = "LineString"
       THEN IsSubsequence(given.coords, result.coords)
       ELSE result.coords = given.coords

\* C25: detectIntersections returns the features it was given, in their
\* order, each road's coordinate sequence a subsequence of the returned
\* one, followed by the intersection points it created.
C25_OnlyInserts ==
    (dvariant = "vector" /\ druns >= 1) =>
        /\ Len(dout) >= Len(DetInput)
        /\ \A n \in 1..Len(DetInput) : SameButInserted(DetInput[n], dout[n])
        /\ \A n \in (Len(DetInput) + 1)..Len(dout) :
              dout[n].type = "Point" /\ dout[n].isIntersection

\* C25 witness: a run that inserted a vertex into a road and appended an
\* intersection point.
C25_Witness ==
    /\ dvariant = "vector" /\ druns >= 1
    /\ Len(dout) > Len(DetInput)
    /\ \E n \in 1..Len(DetInput) : Len(dout[n].coords) > Len(DetInput[n].coords)

\* ------------------------------------------------------- connected components
pixelIndex(x, y, width) == y * width + x

\* The four neighbours on the axes only.
neighboursOnAxes(x, y) ==
    <<[x |-> x, y |-> y - 1], [x |-> x - 1, y |-> y],
      [x |-> x + 1, y |-> y], [x |-> x, y |-> y + 1]>>

\* The pushes of the two dy, dx loops, in their order.
neighbours(x, y) ==
    <<[x |-> x - 1, y |-> y - 1], [x |-> x, y |-> y - 1], [x |-> x + 1, y |-> y - 1],
      [x |-> x - 1, y |-> y],                             [x |-> x + 1, y |-> y],
      [x |-> x - 1, y |-> y + 1], [x |-> x, y |-> y + 1], [x |-> x + 1, y |-> y + 1]>>

\* The test after which floodFill passes a popped pixel over.
skipped(binary, visited, p, width, height) ==
    \/ p.x < 0 \/ p.x >= width \/ p.y < 0 \/ p.y >= height
    \/ pixelIndex(p.x, p.y, width) \in visited
    \/ binary[pixelIndex(p.x, p.y, width) + 1] # White

\* if (component.length > 5) components.push(component)
kept(components, component) ==
    IF Len(component) > MinKept THEN Append(components, component) ELSE components

\* The columns an image is made of: empty, full, the middle pixel, the two
\* outer pixels.
ColumnPatterns ==
    {[y \in 0..(FillHeight - 1) |-> 0],
     [y \in 0..(FillHeight - 1) |-> White],
     [y \in 0..(FillHeight - 1) |-> IF y = 0 \/ y = FillHeight - 1 THEN 0 ELSE White],
     [y \in 0..(FillHeight - 1) |-> IF y = 0 \/ y = FillHeight - 1 THEN White ELSE 0]}

ImageOf(columns) ==
    [i \in 1..(FillWidth * FillHeight) |->
        columns[((i - 1) % FillWidth) + 1][(i - 1) \div FillWidth]]

InitFill ==
    /\ scenario = "components"
    /\ \E columns \in [1..FillWidth -> ColumnPatterns] : ccbinary = ImageOf(columns)
    /\ ccx = 0
    /\ ccy = 0
    /\ ccvisited = {}
    /\ ccstack = <<>>
    /\ cccomponent = <<>>
    /\ cccomponents = <<>>
    /\ ccfound = <<>>
    /\ ccpc = "scan"
    /\ OnlyFill

\* x++ of the inner loop, y++ of the outer one at the end of a row.
ScanOn ==
    IF ccx + 1 < FillWidth THEN ccx' = ccx + 1 /\ ccy' = ccy
    ELSE ccx' = 0 /\ ccy' = ccy + 1

\* One pass of the inner loop of findConnectedComponents on a pixel that is
\* background or visited.
ScanPass ==
    /\ scenario = "components"
    /\ ccpc = "scan"
    /\ ccy < FillHeight
    /\ ~(ccbinary[pixelIndex(ccx, ccy, FillWidth) + 1] = White
            /\ pixelIndex(ccx, ccy, FillWidth) \notin ccvisited)
    /\ ScanOn
    /\ UNCHANGED <<ccbinary, ccvisited, ccstack, cccomponent, cccomponents, ccfound, ccpc,
                   exceptFillVars>>

\* The call of floodFill on an unvisited foreground pixel.
FillCall ==
    /\ scenario = "components"
    /\ ccpc = "scan"
    /\ ccy < FillHeight
    /\ ccbinary[pixelIndex(ccx, ccy, FillWidth) + 1] = White
    /\ pixelIndex(ccx, ccy, FillWidth) \notin ccvisited
    /\ ccstack' = <<[x |-> ccx, y |-> ccy]>>
    /\ cccomponent' = <<>>
    /\ ccpc' = "fill"
    /\ UNCHANGED <<ccbinary, ccx, ccy, ccvisited, cccomponents, ccfound, exceptFillVars>>

\* One pass of the while loop of floodFill.
FillPop ==
    /\ scenario = "components"
    /\ ccpc = "fill"
    /\ ccstack # <<>>
    /\ IF skipped(ccbinary, ccvisited, ccstack[Len(ccstack)], FillWidth, FillHeight)
       THEN /\ ccstack' = SubSeq(ccstack, 1, Len(ccstack) - 1)
            /\ UNCHANGED <<ccvisited, cccomponent>>
       ELSE /\ ccvisited' = ccvisited \cup
                   {pixelIndex(ccstack[Len(ccstack)].x, ccstack[Len(ccstack)].y, FillWidth)}
            /\ cccomponent' = Append(cccomponent, ccstack[Len(ccstack)])
            /\ ccstack' = SubSeq(ccstack, 1, Len(ccstack) - 1)
                            \o neighbours(ccstack[Len(ccstack)].x, ccstack[Len(ccstack)].y)
    /\ UNCHANGED <<ccbinary, ccx, ccy, cccomponents, ccfound, ccpc, exceptFillVars>>

\* floodFill returns: the component is kept or dropped and the scan goes on.
FillReturn ==
    /\ scenario = "components"
    /\ ccpc = "fill"
    /\ ccstack = <<>>
    /\ ccfound' = Append(ccfound, cccomponent)
    /\ cccomponents' = kept(cccomponents, cccomponent)
    /\ ScanOn
    /\ ccpc' = "scan"
    /\ UNCHANGED <<ccbinary, ccvisited, ccstack, cccomponent, exceptFillVars>>

\* The loops are over: return components.
ScanEnd ==
    /\ scenario = "components"
    /\ ccpc = "scan"
    /\ ccy >= FillHeight
    /\ ccpc' = "done"
    /\ UNCHANGED <<ccbinary, ccx, ccy, ccvisited, ccstack, cccomponent, cccomponents, ccfound,
                   exceptFillVars>>

NextFill == ScanPass \/ FillCall \/ FillPop \/ FillReturn \/ ScanEnd

SpecFill == InitFill /\ [][NextFill]_vars

\* The loops run one after the other in one call, which is not suspended.
SpecFillRun == SpecFill /\ WF_vars(NextFill)

Foreground == {i \in 0..(Len(ccbinary) - 1) : ccbinary[i + 1] = White}

\* Pixel indices i and j are different and touch, corners included.
Touch(i, j) ==
    /\ i # j
    /\ Abs((i % FillWidth) - (j % FillWidth)) <= 1
    /\ Abs((i \div FillWidth) - (j \div FillWidth)) <= 1

RECURSIVE GrownFrom(_)
\* The foreground pixels connected with those of a set.
GrownFrom(set) ==
    IF \E j \in Foreground \ set : \E i \in set : Touch(i, j)
    THEN GrownFrom(set \cup {j \in Foreground : \E i \in set : Touch(i, j)})
    ELSE set

InBounds(p) == p.x >= 0 /\ p.x < FillWidth /\ p.y >= 0 /\ p.y < FillHeight
IndicesOf(component) ==
    {pixelIndex(component[k].x, component[k].y, FillWidth) : k \in 1..Len(component)}

IsLarge(component) == Len(component) >= MinKept + 1

\* C24: findConnectedComponents comes to its end; every component floodFill
\* collects has pixels of the image only, each of them foreground and none
\* twice or in two components; and at the end the components found are the
\* maximal 8-connected sets of foreground pixels, every foreground pixel is
\* in one of them, and the components returned are those of 6 or more pixels.
C24_Components ==
    /\ [](\A a \in 1..Len(ccfound) :
             /\ \A k \in 1..Len(ccfound[a]) : InBounds(ccfound[a][k])
             /\ IndicesOf(ccfound[a]) \subseteq Foreground
             /\ Cardinality(IndicesOf(ccfound[a])) = Len(ccfound[a])
             /\ \A b \in 1..Len(ccfound) :
                   a # b => IndicesOf(ccfound[a]) \cap IndicesOf(ccfound[b]) = {})
    /\ [](ccpc = "done" =>
             /\ \A a \in 1..Len(ccfound) :
                   /\ ccfound[a] # <<>>
                   /\ IndicesOf(ccfound[a]) = GrownFrom(IndicesOf(<<ccfound[a][1]>>))
             /\ UNION {IndicesOf(ccfound[a]) : a \in 1..Len(ccfound)} = Foreground
             /\ cccomponents = SelectSeq(ccfound, IsLarge))
    /\ <>(ccpc = "done")

\* C24 witness: the scan is over on an image with a component of 6 pixels
\* or more, which was returned, and a smaller one, which was dropped.
C24_Witness ==
    /\ ccpc = "done"
    /\ Len(ccfound) = 2
    /\ Len(cccomponents) = 1

\* ------------------------------------------------------- selection on the page
\* A feature as the handlers see it; NullFeature stands for null.  The
\* coordinates are a list of positions, of the one position for a Point.
NullFeature ==
    [isNull |-> TRUE, hasId |-> FALSE, id |-> 0, geometry |-> "none", coordinates |-> <<>>]
SelRoad(hasId, id, coordinates) ==
    [isNull |-> FALSE, hasId |-> hasId, id |-> id, geometry |-> "LineString",
     coordinates |-> coordinates]
SelPoint(x, y) ==
    [isNull |-> FALSE, hasId |-> FALSE, id |-> 0, geometry |-> "Point",
     coordinates |-> <<<<x, y>>>>]

\* A number or undefined, as it is written into a template string.
Written(defined, value) == <<defined, value>>

\* firstCoord[c] or lastCoord[c] of the template: a number of a LineString's
\* first or last position; undefined for a Point, whose coordinates[0] is a
\* number.
part(feature, k, c) ==
    IF feature.geometry = "LineString"
    THEN Written(TRUE, feature.coordinates[k][c])
    ELSE Written(FALSE, 0)

NullIdentifier == [kind |-> "null", id |-> 0, parts |-> <<>>, length |-> 0]

\* coords.length: the number of positions of a LineString, the 2 numbers
\* of a Point.
coordsLength(feature) ==
    IF feature.geometry = "Point" THEN 2 ELSE Len(feature.coordinates)

\* `id-${feature.id}`, or `coords-${first[0]}-${first[1]}-${last[0]}-${last[1]}-${length}`,
\* or null.
getFeatureIdentifier(feature) ==
    IF feature.isNull THEN NullIdentifier
    ELSE IF feature.hasId
    THEN [kind |-> "id", id |-> feature.id, parts |-> <<>>, length |-> 0]
    ELSE IF feature.geometry # "none"
    THEN [kind |-> "coords", id |-> 0,
          parts |-> <<part(feature, 1, 1), part(feature, 1, 2),
                      part(feature, Len(feature.coordinates), 1),
                      part(feature, Len(feature.coordinates), 2)>>,
          length |-> coordsLength(feature)]
    ELSE NullIdentifier

\* The road features the map draws: two with the id of their way, three of
\* the raster pipeline without id.
SelRoads ==
    {SelRoad(TRUE, 1, <<<<0, 0>>, <<1, 0>>>>),
     SelRoad(TRUE, 2, <<<<0, 0>>, <<1, 0>>>>),
     SelRoad(FALSE, 0, <<<<0, 0>>, <<1, 1>>, <<2, 0>>>>),
     SelRoad(FALSE, 0, <<<<0, 0>>, <<1, -1>>, <<2, 0>>>>),
     SelRoad(FALSE, 0, <<<<0, 0>>, <<3, 0>>>>)}
\* The intersection points of the list in the data panel.
SelPoints == {SelPoint(1, 0), SelPoint(2, 0)}

InitSel ==
    /\ scenario = "selection"
    /\ currentSelectedFeatureId = NullIdentifier
    /\ highlightedFeature = NullFeature
    /\ selHandler = "none"
    /\ selFeature = NullFeature
    /\ selBefore = NullFeature
    /\ OnlySel

\* handleMapFeatureClick(feature): the map calls it for road features.
HandleMapFeatureClick ==
    /\ scenario = "selection"
    /\ \E feature \in SelRoads :
          /\ IF /\ currentSelectedFeatureId # NullIdentifier
                /\ getFeatureIdentifier(feature) # NullIdentifier
                /\ getFeatureIdentifier(feature) = currentSelectedFeatureId
             THEN /\ currentSelectedFeatureId' = NullIdentifier
                  /\ highlightedFeature' = NullFeature
             ELSE /\ currentSelectedFeatureId' = getFeatureIdentifier(feature)
                  /\ highlightedFeature' = feature
          /\ selFeature' = feature
    /\ selHandler' = "click"
    /\ selBefore' = highlightedFeature
    /\ UNCHANGED exceptSelVars

\* handleFeatureHighlight(feature): the data panel calls it with a feature of
\* its list or with null.
HandleFeatureHighlight ==
    /\ scenario = "selection"
    /\ \E feature \in SelRoads \cup SelPoints \cup {NullFeature} :
          /\ currentSelectedFeatureId' =
                IF ~feature.isNull THEN getFeatureIdentifier(feature) ELSE NullIdentifier
          /\ highlightedFeature' = feature
          /\ selFeature' = feature
    /\ selHandler' = "highlight"
    /\ selBefore' = highlightedFeature
    /\ UNCHANGED exceptSelVars

\* handleReset: the states are cleared, the module-level identifier is not
\* touched.
HandleReset ==
    /\ scenario = "selection"
    /\ highlightedFeature' = NullFeature
    /\ selHandler' = "reset"
    /\ selFeature' = NullFeature
    /\ selBefore' = highlightedFeature
    /\ UNCHANGED <<currentSelectedFeatureId, exceptSelVars>>

NextSel == HandleMapFeatureClick \/ HandleFeatureHighlight \/ HandleReset

SpecSel == InitSel /\ [][NextSel]_vars

\* C26: currentSelectedFeatureId is null exactly when highlightedFeature is
\* null and is the identifier of highlightedFeature otherwise; and a map
\* click on a feature that was not the highlighted one selects it.
C26_SelectionAgrees ==
    /\ (currentSelectedFeatureId = NullIdentifier) <=> (highlightedFeature = NullFeature)
    /\ currentSelectedFeatureId = getFeatureIdentifier(highlightedFeature)
    /\ (selHandler = "click" /\ selFeature # selBefore) => highlightedFeature = selFeature

\* ----------------------------------------------------------- handleAnalyze
\* What an analysis can return: a road collection and, from the raster
\* pipeline, its intersection features if there are any.
RoadResults == {"roadsA", "roadsB"}
PointResults(method) == IF method = "api" THEN {"null"} ELSE {"null", "pointsA", "pointsB"}

InitAnalyze ==
    /\ scenario = "analyze"
    /\ avariant \in {"page", "older"}
    /\ inputGeoJson \in {"null", "empty", "region"}
    /\ isAnalyzing = FALSE
    /\ roadNetwork \in {"null"} \cup RoadResults
    /\ intersections = "null"
    /\ amethod = "none"
    /\ apc = "idle"
    /\ atoast = "none"
    /\ abefore = <<roadNetwork, intersections>>
    /\ aoutcome = "none"
    /\ acalls = 0
    /\ OnlyAnalyze

\* The two early returns of handleAnalyze: a toast and nothing else.
AnalyzeRefused ==
    /\ scenario = "analyze"
    /\ apc = "idle"
    /\ ~isAnalyzing
    /\ inputGeoJson # "region"
    /\ atoast' = IF inputGeoJson = "null" THEN "no input" ELSE "invalid region"
    /\ UNCHANGED <<avariant, inputGeoJson, isAnalyzing, roadNetwork, intersections,
                   amethod, apc, abefore, aoutcome, acalls, exceptAnalyzeVars>>

\* handleAnalyze up to its await; the button is disabled while isAnalyzing.
AnalyzeStart ==
    /\ scenario = "analyze"
    /\ apc = "idle"
    /\ ~isAnalyzing
    /\ inputGeoJson = "region"
    /\ acalls < MaxAnalyses
    /\ amethod' \in IF avariant = "page" THEN {"api", "image"} ELSE {"api"}
    /\ isAnalyzing' = TRUE
    /\ atoast' = "analyzing"
    /\ apc' = "awaiting"
    /\ abefore' = <<roadNetwork, intersections>>
    /\ aoutcome' = "pending"
    /\ acalls' = acalls + 1
    /\ UNCHANGED <<avariant, inputGeoJson, roadNetwork, intersections, exceptAnalyzeVars>>

\* A catch block without a finally after it: the call returns.
AnalysisThrowsAndReturns ==
    /\ scenario = "analyze"
    /\ apc = "awaiting"
    /\ atoast' = "failed"
    /\ aoutcome' = "threw"
    /\ apc' = "idle"
    /\ UNCHANGED <<avariant, inputGeoJson, isAnalyzing, roadNetwork, intersections,
                   amethod, abefore, acalls, exceptAnalyzeVars>>

\* A catch block that clears what is stored.
AnalysisThrowsAndClears ==
    /\ scenario = "analyze"
    /\ apc = "awaiting"
    /\ atoast' = "failed"
    /\ aoutcome' = "threw"
    /\ apc' = "finally"
    /\ roadNetwork' = "null"
    /\ intersections' = "null"
    /\ UNCHANGED <<avariant, inputGeoJson, isAnalyzing, amethod, abefore, acalls,
                   exceptAnalyzeVars>>

\* The awaited analysis returns: the rest of the try block.
AnalysisResolves ==
    /\ scenario = "analyze"
    /\ apc = "awaiting"
    /\ roadNetwork' \in RoadResults
    /\ intersections' \in IF avariant = "page" THEN PointResults(amethod) ELSE {intersections}
    /\ atoast' = "done"
    /\ aoutcome' = "resolved"
    /\ apc' = "finally"
    /\ UNCHANGED <<avariant, inputGeoJson, isAnalyzing, amethod, abefore, acalls,
                   exceptAnalyzeVars>>

\* The awaited analysis throws: the catch block.
AnalysisThrows ==
    /\ scenario = "analyze"
    /\ apc = "awaiting"
    /\ atoast' = "failed"
    /\ aoutcome' = "threw"
    /\ apc' = "finally"
    /\ UNCHANGED <<avariant, inputGeoJson, isAnalyzing, roadNetwork, intersections,
                   amethod, abefore, acalls, exceptAnalyzeVars>>

\* finally { setIsAnalyzing(false) }
AnalyzeFinally ==
    /\ scenario = "analyze"
    /\ apc = "finally"
    /\ isAnalyzing' = FALSE
    /\ apc' = "idle"
    /\ UNCHANGED <<avariant, inputGeoJson, roadNetwork, intersections, amethod, atoast,
                   abefore, aoutcome, acalls, exceptAnalyzeVars>>

NextAnalyze ==
    AnalyzeRefused \/ AnalyzeStart \/ AnalysisResolves \/ AnalysisThrows \/ AnalyzeFinally

SpecAnalyze == InitAnalyze /\ [][NextAnalyze]_vars

\* The awaited promise settles, and the code after it runs to its end.
SpecAnalyzeRun ==
    /\ SpecAnalyze
    /\ WF_vars(AnalysisResolves \/ AnalysisThrows)
    /\ WF_vars(AnalyzeFinally)

\* C27: a call of handleAnalyze that set isAnalyzing to true sets it to
\* false later, after the analysis returned or threw.
C27_AnalyzingEnds ==
    (isAnalyzing /\ apc = "awaiting") ~>
        (~isAnalyzing /\ apc = "idle" /\ aoutcome \in {"resolved", "threw"})

\* C27 witness: isAnalyzing is false again after an analysis that threw.
C27_Witness ==
    /\ acalls >= 1
    /\ aoutcome = "threw"
    /\ apc = "idle"
    /\ ~isAnalyzing

\* C28: from the beginning of a call of handleAnalyze until its analysis has
\* returned, and for good if it throws, roadNetwork and intersections are
\* what they were when the call began.
C28_FailureKeepsStored ==
    aoutcome \in {"pending", "threw"} => <<roadNetwork, intersections>> = abefore

\* C28 witness: a second analysis threw and the results of the first are
\* still stored.
C28_Witness ==
    /\ acalls = 2
    /\ aoutcome = "threw"
    /\ apc = "idle"
    /\ roadNetwork \in RoadResults
    /\ intersections # "null"

\* ------------------------------------------------------------- map editor
\* A feature of editableNetwork; the coordinates are a list of positions, of
\* the one position for a Point.  A feature without id has hasId FALSE.
EditRoad(hasId, id, coordinates) ==
    [hasId |-> hasId, id |-> id, type |-> "LineString", coordinates |-> coordinates]
EditPoint(hasId, id, position) ==
    [hasId |-> hasId, id |-> id, type |-> "Point", coordinates |-> <<position>>]

\* f.id === feature.id: undefined equals undefined.
sameId(f, feature) == f.hasId = feature.hasId /\ f.id = feature.id

\* prev.features.filter((f) => f.id !== feature.id)
RECURSIVE withoutId(_, _)
withoutId(features, feature) ==
    IF features = <<>> THEN <<>>
    ELSE IF sameId(Head(features), feature) THEN withoutId(Tail(features), feature)
    ELSE <<Head(features)>> \o withoutId(Tail(features), feature)

\* prev.features.map((f) => f.id === feature.id ? {...f, geometry:
\* {...f.geometry, coordinates}} : f)
withCoordinates(features, feature, coordinates) ==
    [j \in 1..Len(features) |->
        IF sameId(features[j], feature)
        THEN [features[j] EXCEPT !.coordinates = coordinates]
        ELSE features[j]]

\* L.polyline(coordinates.map(c => [c[1], c[0]])).getLatLngs()
latLngsOf(coordinates) ==
    [j \in 1..Len(coordinates) |-> [lat |-> coordinates[j][2], lng |-> coordinates[j][1]]]
\* latLngs.map(ll => [ll.lng, ll.lat])
coordsOf(latLngs) == [j \in 1..Len(latLngs) |-> <<latLngs[j].lng, latLngs[j].lat>>]

\* latLngs.splice(index, 1), index counted from 1 here.
spliceOut(seq, index) == SubSeq(seq, 1, index - 1) \o SubSeq(seq, index + 1, Len(seq))

\* Roads with the id of their way, roads of the raster pipeline without id,
\* intersection points as detectIntersections makes them, without id, and
\* one with an id.
EditFeatures ==
    <<EditRoad(TRUE, 1, <<<<0, 0>>, <<1, 0>>, <<2, 0>>>>),
      EditRoad(TRUE, 2, <<<<0, 1>>, <<1, 1>>>>),
      EditRoad(FALSE, 0, <<<<0, 2>>, <<1, 2>>, <<2, 2>>>>),
      EditRoad(FALSE, 0, <<<<0, 3>>, <<1, 3>>>>),
      EditPoint(FALSE, 0, <<1, 0>>),
      EditPoint(FALSE, 0, <<1, 1>>),
      EditPoint(TRUE, 7, <<1, 2>>)>>

\* Where a marker is dropped.
DropPositions == {<<5, 5>>, <<6, 4>>}

InitEdit ==
    /\ scenario = "edit"
    /\ \E picks \in UNION {[1..n -> 1..Len(EditFeatures)] : n \in 2..MaxEdited} :
          /\ \A a, b \in 1..Len(picks) : a # b => picks[a] # picks[b]
          /\ editableNetwork = [j \in 1..Len(picks) |-> EditFeatures[picks[j]]]
    /\ edBefore = editableNetwork
    /\ edOp = "none"
    /\ edIndex = 0
    /\ OnlyEdit

\* The context menu of a road or of an intersection marker, confirmed.
DeleteFeature ==
    /\ scenario = "edit"
    /\ edOp = "none"
    /\ \E k \in 1..Len(editableNetwork) :
          /\ editableNetwork' = withoutId(editableNetwork, editableNetwork[k])
          /\ edIndex' = k
    /\ edOp' = "delete"
    /\ edBefore' = editableNetwork
    /\ UNCHANGED exceptEditVars

\* The drag of an intersection marker.
DragIntersection ==
    /\ scenario = "edit"
    /\ edOp = "none"
    /\ \E k \in 1..Len(editableNetwork), position \in DropPositions :
          /\ editableNetwork[k].type = "Point"
          /\ editableNetwork' =
                withCoordinates(editableNetwork, editableNetwork[k], <<position>>)
          /\ edIndex' = k
    /\ edOp' = "drag"
    /\ edBefore' = editableNetwork
    /\ UNCHANGED exceptEditVars

\* The drag of a vertex marker of a road, and its end.
MoveVertex ==
    /\ scenario = "edit"
    /\ edOp = "none"
    /\ \E k \in 1..Len(editableNetwork), position \in DropPositions :
          /\ editableNetwork[k].type = "LineString"
          /\ \E index \in 1..Len(editableNetwork[k].coordinates) :
                editableNetwork' =
                    withCoordinates(editableNetwork, editableNetwork[k],
                        coordsOf([latLngsOf(editableNetwork[k].coordinates)
                                     EXCEPT ![index] = [lat |-> position[2],
                                                        lng |-> position[1]]]))
          /\ edIndex' = k
    /\ edOp' = "move"
    /\ edBefore' = editableNetwork
    /\ UNCHANGED exceptEditVars

\* The context menu of a vertex marker, confirmed, on a road of more than 2
\* vertices.
DeleteVertex ==
    /\ scenario = "edit"
    /\ edOp = "none"
    /\ \E k \in 1..Len(editableNetwork) :
          /\ editableNetwork[k].type = "LineString"
          /\ Len(editableNetwork[k].coordinates) > 2
          /\ \E index \in 1..Len(editableNetwork[k].coordinates) :
                editableNetwork' =
                    withCoordinates(editableNetwork, editableNetwork[k],
                        coordsOf(spliceOut(latLngsOf(editableNetwork[k].coordinates),
                                           index)))
          /\ edIndex' = k
    /\ edOp' = "deleteVertex"
    /\ edBefore' = editableNetwork
    /\ UNCHANGED exceptEditVars

NextEdit == DeleteFeature \/ DragIntersection \/ MoveVertex \/ DeleteVertex

SpecEdit == InitEdit /\ [][NextEdit]_vars

\* C29: an edit changes the edited feature only: after a deletion the
\* other features are all there, in their order; after a drag, a move or a
\* vertex deletion every other feature is as it was.
C29_OnlyEditedChanges ==
    /\ edOp = "delete" => editableNetwork = spliceOut(edBefore, edIndex)
    /\ edOp \in {"drag", "move", "deleteVertex"} =>
          /\ Len(editableNetwork) = Len(edBefore)
          /\ \A j \in 1..Len(edBefore) : j # edIndex => editableNetwork[j] = edBefore[j]

\* -------------------------------------------------- what the loader accepts
\* parsed.features.some(feature => feature && feature.geometry && its type
\* is Polygon, Point or LineString), after the test that features is not
\* empty.
hasValidGeometry(features) ==
    /\ Len(features) > 0
    /\ \E k \in 1..Len(features) : features[k].type \in {"Polygon", "Point", "LineString"}

\* C30: a region that handleGeoJsonSubmit accepts is analysed without input
\* error on both paths: the analyzer goes on to fetch with a bounding box
\* whose bounds are finite, north not below south and east not below west.
C30_AcceptedRegionHasBox ==
    (bpc # "start" /\ hasValidGeometry(bregion)) =>
        /\ bpc = "fetching"
        /\ IsFinite(bbox.north) /\ IsFinite(bbox.south)
        /\ IsFinite(bbox.east) /\ IsFinite(bbox.west)
        /\ RLe(bbox.south, bbox.north)
        /\ RLe(bbox.west, bbox.east)

\* ------------------------------------------------------------ whole model
Init ==
    \/ InitSeg \/ InitPip \/ InitFetch \/ InitDet
    \/ InitClip \/ InitBox \/ InitPipe \/ InitNorm
    \/ InitBin \/ InitType \/ InitFill \/ InitSel
    \/ InitAnalyze \/ InitEdit

Next ==
    \/ NextSeg \/ NextPip \/ NextFetch \/ NextDet
    \/ NextClip \/ NextBox \/ NextPipe \/ NextNorm
    \/ NextBin \/ NextType \/ NextFill \/ NextSel
    \/ NextAnalyze \/ NextEdit

Spec == Init /\ [][Next]_vars

=============================================================================
